---- MODULE Spec2Model ----
(***************************************************************************)
(* Verification model of the ci-tools core: the registry syncer's sharded  *)
(* lock and reconcile procedure, the promotion step and the step planner.  *)
(***************************************************************************)
EXTENDS Integers, Sequences, FiniteSets, TLC

VARIABLES
    \* ---- shardedLock and the reconcile workers (registrysyncer.go) ----
    mapLock,      \* holder of shardedLock.mapLock: Free, Cleaner or a worker
    locks,        \* shardedLock.locks: key -> mutex id, 0 when the key is absent
    mutexOwner,   \* per mutex id: Free, Cleaner or the worker holding it
    nextMutex,    \* number of mutexes constructed so far
    wpc,          \* per worker: position inside reconcile
    wreq,         \* per worker: the reconcile.Request being served
    wmutex,       \* per worker: the mutex returned by getLock (0: none)
    cpc,          \* position of the cleaner inside cleanup()
    ckeys,        \* keys the cleaner's range loop has still to visit
    ckey,         \* key of the current iteration of the cleaner ("" : none)
    \* ---- the clusters and one reconcile of a request (registrysyncer.go) ----
    readOnly,       \* reconciler.readOnly
    nsExists,       \* per cluster: the request's namespace exists
    streams,        \* per cluster: the request's ImageStream
    tags,           \* per cluster: the request's ImageStreamTag
    rpc,            \* position inside reconcile's body
    isTags,         \* reconcile's isTags map (tags gathered from the clusters)
    srcClusterName, \* reconcile's srcClusterName ("" : none)
    srcStream,      \* reconcile's sourceImageStream, as read from the source
    todo,           \* clusters the current range loop has still to visit
    calls,          \* API calls and metric counts issued after the gathering
    result,         \* what reconcile returned: "", "ok" or "error"
    \* ---- one run of the promotion step (promote.go) ----
    config,             \* promotionStep.config
    images,             \* promotionStep.images
    requiredImages,     \* promotionStep.requiredImages
    pushSecret,         \* promotionStep.pushSecret is not nil
    imageCreatorClient, \* promotionStep.imageCreatorClient is not nil
    pipeline,           \* tags present in the status of the pipeline stream
    dstStreams,         \* names of the image streams of the destination namespace
    dstSpecTags,        \* spec tags of the destination stream config.Name
    dstImageTags,       \* destinations whose ImageStreamTag has been written
    ppc,                \* position inside promotionStep.run
    promTags,           \* run's tags (dst -> src)
    promNames,          \* run's names
    ptodo,              \* destinations the range loop has still to visit
    pcur,               \* destination of the current RetryOnConflict
    attempts,           \* calls of the closure made by the current RetryOnConflict
    lastErr,            \* what the last call of the closure returned
    pcalls,             \* API calls issued by run
    presult,            \* what run returned ("" while it runs)
    \* ---- one run of the planner's loop over the raw steps (defaults) ----
    rawSteps,       \* the step configurations, in order
    env,            \* names of the environment variables that are set
    plpc,           \* position inside FromConfig
    nextRaw,        \* index of the raw step the loop visits next
    buildSteps,     \* FromConfig's buildSteps
    paramValues,    \* DeferredParameters: names holding a value
    paramFns,       \* DeferredParameters: names holding a deferred function
    imageStepLinks, \* FromConfig's imageStepLinks
    promote,        \* FromConfig's promote argument
    promotionConfiguration, \* config.PromotionConfiguration is not nil
    postSteps,      \* FromConfig's postSteps
    planErr,        \* the error FromConfig returned ("" : nil)
    \* ---- one event passed to the handler's filter (registrysyncer.go) ----
    filterSets,     \* the sets the filter was made from
    nn,             \* the NamespacedName of the incoming request
    fpc,            \* position of the handler
    admitted,       \* what the filter returned
    enqueued,       \* the requests the handler returned
    \* ---- calls of the promotion step's helper functions (promote.go) ----
    hasPromotion,   \* configuration.PromotionConfiguration is not nil
    hcalled,        \* the helper functions that have returned
    promotedTags,   \* what PromotedTags returned
    imageMirror,    \* what getImageMirrorTarget returned
    pod             \* what getPromotionPod returned

lockVars == <<mapLock, locks, mutexOwner, nextMutex, wpc, wreq, wmutex, cpc, ckeys, ckey>>

recVars == <<readOnly, nsExists, streams, tags, rpc, isTags, srcClusterName, srcStream, todo, calls, result>>

promVars == <<config, images, requiredImages, pushSecret, imageCreatorClient, pipeline,
              dstStreams, dstSpecTags, dstImageTags, ppc, promTags, promNames, ptodo,
              pcur, attempts, lastErr, pcalls, presult>>

planVars == <<rawSteps, env, plpc, nextRaw, buildSteps, paramValues, paramFns, imageStepLinks,
              promote, promotionConfiguration, postSteps, planErr>>

filterVars == <<filterSets, nn, fpc, admitted, enqueued>>

helperVars == <<hasPromotion, hcalled, promotedTags, imageMirror, pod>>

auxVars == <<filterVars, helperVars>>

vars == <<lockVars, recVars, promVars, planVars, auxVars>>

----------------------------------------------------------------------------
(* Bounds of the model *)

NumWorkers == 2
MaxMutex == 3
MaxTime == 2
MaxImages == 2
MaxExcluded == 1
MaxRawSteps == 2
MaxSpecTags == 4

----------------------------------------------------------------------------
(* Strings are sequences of one-character strings, so that Split, HasPrefix *)
(* and concatenation are computed and not assumed.                         *)

RECURSIVE SplitFrom(_, _, _)
SplitFrom(s, sep, cur) ==
    IF s = <<>> THEN <<cur>>
    ELSE IF Head(s) = sep THEN <<cur>> \o SplitFrom(Tail(s), sep, <<>>)
    ELSE SplitFrom(Tail(s), sep, Append(cur, Head(s)))

Split(s, sep) == SplitFrom(s, sep, <<>>)

HasPrefix(s, prefix) ==
    /\ Len(prefix) <= Len(s)
    /\ SubSeq(s, 1, Len(prefix)) = prefix

RECURSIVE ReplaceAll(_, _, _)
ReplaceAll(s, old, new) ==
    IF s = <<>> THEN <<>>
    ELSE IF HasPrefix(s, old) /\ old # <<>>
           THEN new \o ReplaceAll(SubSeq(s, Len(old) + 1, Len(s)), old, new)
           ELSE <<Head(s)>> \o ReplaceAll(Tail(s), old, new)

\* The orders in which a range loop may visit the elements of S.
Orders(S) ==
    { o \in [1..Cardinality(S) -> S] : \A i, j \in DOMAIN o : i # j => o[i] # o[j] }

----------------------------------------------------------------------------
(* The registry clusters and what they hold for the reconciled request *)

Clusters == {"api.ci", "app.ci", "build01"}

ControllerNamespace == "ci"

ImageStreamName == "a"

ImageTag == "x"

ServiceDomainAPICIRegistry == <<"registry.svc.ci.openshift.org">>

ServiceDomainAPPCIRegistry == <<"registry.ci.openshift.org">>

ImageNames == {"sha256:1", "sha256:2"}

Times == 0..MaxTime

\* The registry host under which a cluster's own images are referenced.
InternalRegistry(c) ==
    IF c = "api.ci" THEN <<"docker-registry.default.svc:5000">>
    ELSE <<"image-registry.openshift-image-registry.svc:5000">>

\* Image.DockerImageReference of an image held by cluster c.
DockerImageReference(c, img) ==
    InternalRegistry(c) \o <<"/", ControllerNamespace, "/", ImageStreamName, "@", img>>

\* Tag.From of a tag: empty when the tag has no DockerImage source.
NoFrom == <<>>

\* The origins the tag held by cluster c may have: none, or the registry of
\* another cluster that this controller syncs.
FromNames(c) ==
    {NoFrom,
     (IF c = "api.ci" THEN ServiceDomainAPPCIRegistry ELSE ServiceDomainAPICIRegistry)
        \o <<"/", ControllerNamespace, "/", ImageStreamName>>}

NoTag == [exists |-> FALSE, img |-> "", ts |-> 0, from |-> NoFrom]

NoStream == [exists |-> FALSE, fin |-> FALSE, del |-> FALSE]

\* What one cluster may hold: nothing, the namespace alone, the stream
\* without the tag, or the stream with the tag.
ClusterState(ns, stream, tag) == [ns |-> ns, stream |-> stream, tag |-> tag]

Stream(fin, del) == [exists |-> TRUE, fin |-> fin, del |-> del]

\* Steady scenarios: no stream is being deleted; a stream that holds the tag
\* carries the sync finalizer, a stream without the tag does not; the tags
\* vary in image, creation time and origin.
SteadyStates(c) ==
    {ClusterState(FALSE, NoStream, NoTag),
     ClusterState(TRUE, NoStream, NoTag),
     ClusterState(TRUE, Stream(FALSE, FALSE), NoTag)}
      \cup { ClusterState(TRUE, Stream(TRUE, FALSE),
                          [exists |-> TRUE, img |-> i, ts |-> t, from |-> fr]) :
                i \in ImageNames, t \in Times, fr \in FromNames(c) }

\* Deletion scenarios: the streams vary in finalizer and deletion timestamp;
\* the tags hold one image without origin, created at the same time, so that
\* the visiting order decides which holder is the source.
DeletionStates(c) ==
    {ClusterState(FALSE, NoStream, NoTag),
     ClusterState(TRUE, NoStream, NoTag)}
      \cup { ClusterState(TRUE, Stream(f, d), NoTag) : f \in BOOLEAN, d \in BOOLEAN }
      \cup { ClusterState(TRUE, Stream(f, d),
                          [exists |-> TRUE, img |-> "sha256:1", ts |-> 1, from |-> NoFrom]) :
                f \in BOOLEAN, d \in BOOLEAN }

RecIdle ==
    /\ readOnly = FALSE
    /\ nsExists = [c \in Clusters |-> FALSE]
    /\ streams = [c \in Clusters |-> NoStream]
    /\ tags = [c \in Clusters |-> NoTag]
    /\ rpc = "off"
    /\ isTags = [c \in Clusters |-> NoTag]
    /\ srcClusterName = ""
    /\ srcStream = NoStream
    /\ todo = {}
    /\ calls = <<>>
    /\ result = ""

\* No promotion step is running.
PromIdle ==
    /\ config = [Disabled |-> TRUE, Name |-> <<>>, Tag |-> <<>>, NamePrefix |-> <<>>,
                 ExcludedImages |-> <<>>, AdditionalImages |-> <<>>]
    /\ images = <<>>
    /\ requiredImages = {}
    /\ pushSecret = FALSE
    /\ imageCreatorClient = FALSE
    /\ pipeline = {}
    /\ dstStreams = {}
    /\ dstSpecTags = <<>>
    /\ dstImageTags = {}
    /\ ppc = "off"
    /\ promTags = <<>>
    /\ promNames = {}
    /\ ptodo = {}
    /\ pcur = <<>>
    /\ attempts = 0
    /\ lastErr = ""
    /\ pcalls = <<>>
    /\ presult = ""

NoPod == [Name |-> <<>>, Namespace |-> <<>>, RestartPolicy |-> "", Containers |-> <<>>]

\* No helper function of the promotion step is called.
HelpersIdle ==
    /\ hasPromotion = FALSE
    /\ hcalled = {}
    /\ promotedTags = <<>>
    /\ imageMirror = <<>>
    /\ pod = NoPod

NoFilterSets ==
    [imageStreamTags |-> {}, imageStreams |-> {}, imageStreamPrefixes |-> {},
     imageStreamNamespaces |-> {}, deniedImageStreams |-> {}]

\* No event is at the handler.
AuxIdle ==
    /\ filterSets = NoFilterSets
    /\ nn = [Namespace |-> "", Name |-> <<>>]
    /\ fpc = "off"
    /\ admitted = FALSE
    /\ enqueued = <<>>
    /\ HelpersIdle

\* The planner is not running.
PlanIdle ==
    /\ rawSteps = <<>>
    /\ env = {}
    /\ plpc = "off"
    /\ nextRaw = 0
    /\ buildSteps = <<>>
    /\ paramValues = {}
    /\ paramFns = {}
    /\ imageStepLinks = {}
    /\ promote = FALSE
    /\ promotionConfiguration = FALSE
    /\ postSteps = <<>>
    /\ planErr = ""

----------------------------------------------------------------------------
(* shardedLock and reconcile's locking protocol *)

Workers == { <<"worker", i>> : i \in 1..NumWorkers }

Free == <<"free">>

Cleaner == <<"cleaner">>

Requests ==
    { [Namespace |-> "ci",  Name |-> <<"a", ":", "x">>],
      [Namespace |-> "ci",  Name |-> <<"a", ":", "y">>],
      [Namespace |-> "ocp", Name |-> <<"a", ":", "x">>],
      [Namespace |-> "ci",  Name |-> <<"a">>] }

\* One request for every key, and the request that is refused.
KeyRequests ==
    { [Namespace |-> "ci",  Name |-> <<"a", ":", "x">>],
      [Namespace |-> "ocp", Name |-> <<"a", ":", "x">>],
      [Namespace |-> "ci",  Name |-> <<"a">>] }

NoRequest == [Namespace |-> "", Name |-> <<>>]

simpleImageStream(req) ==
    [Namespace |-> req.Namespace, Name |-> Split(req.Name, ":")[1]]

StreamKeys == { simpleImageStream(r) : r \in Requests }

InitLockVars ==
    /\ mapLock = Free
    /\ locks = [k \in StreamKeys |-> 0]
    /\ mutexOwner = [m \in 1..MaxMutex |-> Free]
    /\ nextMutex = 0
    /\ wpc = [w \in Workers |-> "idle"]
    /\ wreq = [w \in Workers |-> NoRequest]
    /\ wmutex = [w \in Workers |-> 0]
    /\ cpc = "idle"
    /\ ckeys = {}
    /\ ckey = ""

LockIdle == InitLockVars

InitLock == InitLockVars /\ RecIdle /\ PromIdle /\ PlanIdle /\ AuxIdle

\* reconcile, lines 188-193: split the request name; a name that does not
\* split into two parts is refused before any lock is taken.
ReconcileStartFrom(w, requests) ==
    /\ wpc[w] = "idle"
    /\ \E req \in requests :
          IF Len(Split(req.Name, ":")) # 2
            THEN UNCHANGED <<wreq, wpc>>
            ELSE /\ wreq' = [wreq EXCEPT ![w] = req]
                 /\ wpc' = [wpc EXCEPT ![w] = "getLock"]
    /\ UNCHANGED <<auxVars, recVars, promVars, planVars, mapLock, locks, mutexOwner, nextMutex, wmutex, cpc, ckeys, ckey>>

ReconcileStart(w) == ReconcileStartFrom(w, Requests)

\* getLock, line 101: s.mapLock.Lock()
GetLockEnter(w) ==
    /\ wpc[w] = "getLock"
    /\ mapLock = Free
    /\ mapLock' = w
    /\ wpc' = [wpc EXCEPT ![w] = "inGetLock"]
    /\ UNCHANGED <<auxVars, recVars, promVars, planVars, locks, mutexOwner, nextMutex, wreq, wmutex, cpc, ckeys, ckey>>

\* getLock, lines 102-106: insert a new mutex when the key is absent, return
\* the key's mutex, release the map lock (deferred Unlock).
GetLockReturn(w) ==
    LET key == simpleImageStream(wreq[w]) IN
    /\ wpc[w] = "inGetLock"
    /\ mapLock = w
    /\ IF locks[key] = 0
         THEN /\ nextMutex < MaxMutex
              /\ nextMutex' = nextMutex + 1
              /\ locks' = [locks EXCEPT ![key] = nextMutex + 1]
         ELSE UNCHANGED <<nextMutex, locks>>
    /\ wmutex' = [wmutex EXCEPT ![w] = locks'[key]]
    /\ mapLock' = Free
    /\ wpc' = [wpc EXCEPT ![w] = "lock"]
    /\ UNCHANGED <<auxVars, recVars, promVars, planVars, mutexOwner, wreq, cpc, ckeys, ckey>>

\* reconcile, line 195: lock.Lock()
ReconcileLock(w) ==
    /\ wpc[w] = "lock"
    /\ mutexOwner[wmutex[w]] = Free
    /\ mutexOwner' = [mutexOwner EXCEPT ![wmutex[w]] = w]
    /\ wpc' = [wpc EXCEPT ![w] = "body"]
    /\ UNCHANGED <<auxVars, recVars, promVars, planVars, mapLock, locks, nextMutex, wreq, wmutex, cpc, ckeys, ckey>>

\* reconcile, lines 198-327: the body ends (with success or with an error).
ReconcileBody(w) ==
    /\ wpc[w] = "body"
    /\ wpc' = [wpc EXCEPT ![w] = "unlock"]
    /\ UNCHANGED <<auxVars, recVars, promVars, planVars, mapLock, locks, mutexOwner, nextMutex, wreq, wmutex, cpc, ckeys, ckey>>

\* reconcile returning without the deferred Unlock.
ReconcileUnlock_KeepsMutex(w) ==
    /\ wpc[w] = "unlock"
    /\ wmutex' = [wmutex EXCEPT ![w] = 0]
    /\ wreq' = [wreq EXCEPT ![w] = NoRequest]
    /\ wpc' = [wpc EXCEPT ![w] = "idle"]
    /\ UNCHANGED <<auxVars, recVars, promVars, planVars, mapLock, locks, mutexOwner, nextMutex, cpc, ckeys, ckey>>

\* reconcile, line 196: deferred lock.Unlock()
ReconcileUnlock(w) ==
    /\ wpc[w] = "unlock"
    /\ mutexOwner' = [mutexOwner EXCEPT ![wmutex[w]] = Free]
    /\ wmutex' = [wmutex EXCEPT ![w] = 0]
    /\ wreq' = [wreq EXCEPT ![w] = NoRequest]
    /\ wpc' = [wpc EXCEPT ![w] = "idle"]
    /\ UNCHANGED <<auxVars, recVars, promVars, planVars, mapLock, locks, nextMutex, cpc, ckeys, ckey>>

\* cleanup, line 118: s.mapLock.Lock(); the range loop then visits the keys
\* that are in the map. The cleanups stop while there are mutex numbers
\* left for every key, so that no getLock is ever left without one.
CleanupEnter ==
    /\ cpc = "idle"
    /\ mapLock = Free
    /\ nextMutex + Cardinality(StreamKeys) <= MaxMutex
    /\ mapLock' = Cleaner
    /\ ckeys' = { k \in StreamKeys : locks[k] # 0 }
    /\ cpc' = "range"
    /\ UNCHANGED <<auxVars, recVars, promVars, planVars, locks, mutexOwner, nextMutex, wpc, wreq, wmutex, ckey>>

\* cleanup, lines 121-122: next key of the range loop (in any order),
\* lock.Lock() on its mutex.
CleanupLock ==
    /\ cpc = "range"
    /\ \E k \in ckeys :
          /\ mutexOwner[locks[k]] = Free
          /\ mutexOwner' = [mutexOwner EXCEPT ![locks[k]] = Cleaner]
          /\ ckey' = k
          /\ ckeys' = ckeys \ {k}
    /\ cpc' = "delete"
    /\ UNCHANGED <<auxVars, recVars, promVars, planVars, mapLock, locks, nextMutex, wpc, wreq, wmutex>>

\* cleanup's loop body without the delete.
CleanupDelete_KeepsKey ==
    /\ cpc = "delete"
    /\ mutexOwner' = [mutexOwner EXCEPT ![locks[ckey]] = Free]
    /\ ckey' = ""
    /\ cpc' = "range"
    /\ UNCHANGED <<auxVars, recVars, promVars, planVars, mapLock, locks, nextMutex, wpc, wreq, wmutex, ckeys>>

\* cleanup, lines 123-124: delete(s.locks, key); lock.Unlock()
CleanupDelete ==
    /\ cpc = "delete"
    /\ mutexOwner' = [mutexOwner EXCEPT ![locks[ckey]] = Free]
    /\ locks' = [locks EXCEPT ![ckey] = 0]
    /\ ckey' = ""
    /\ cpc' = "range"
    /\ UNCHANGED <<auxVars, recVars, promVars, planVars, mapLock, nextMutex, wpc, wreq, wmutex, ckeys>>

\* cleanup, line 119: the loop is over, deferred s.mapLock.Unlock()
CleanupReturn ==
    /\ cpc = "range"
    /\ ckeys = {}
    /\ mapLock' = Free
    /\ cpc' = "idle"
    /\ UNCHANGED <<auxVars, recVars, promVars, planVars, locks, mutexOwner, nextMutex, wpc, wreq, wmutex, ckeys, ckey>>

NextLock ==
    \/ \E w \in Workers : ReconcileStart(w)
    \/ \E w \in Workers : GetLockEnter(w)
    \/ \E w \in Workers : GetLockReturn(w)
    \/ \E w \in Workers : ReconcileLock(w)
    \/ \E w \in Workers : ReconcileBody(w)
    \/ \E w \in Workers : ReconcileUnlock(w)
    \/ CleanupEnter
    \/ CleanupLock
    \/ CleanupDelete
    \/ CleanupReturn

SpecLock == InitLock /\ [][NextLock]_vars

\* The next step of a reconcile that has a request, and of the cleaner
\* inside cleanup().
WorkerStep(w) ==
    \/ GetLockEnter(w)
    \/ GetLockReturn(w)
    \/ ReconcileLock(w)
    \/ ReconcileBody(w)
    \/ ReconcileUnlock(w)

CleanerStep ==
    \/ CleanupLock
    \/ CleanupDelete
    \/ CleanupReturn

\* The scheduling of the goroutines: a goroutine that can take its next
\* step again and again takes it. This covers that every reconcile body
\* ends and that a goroutine waiting in Lock() gets the mutex when it is
\* released again and again (sync.Mutex hands the lock to a starving
\* waiter). Nothing obliges a new request or a new cleanup to arrive.
FairLock ==
    /\ \A w \in Workers : SF_vars(WorkerStep(w))
    /\ SF_vars(CleanerStep)

\* The locking depends on the request's key alone: the requests arrive for
\* every key.
NextLockFair ==
    \/ \E w \in Workers : ReconcileStartFrom(w, KeyRequests)
    \/ \E w \in Workers : GetLockEnter(w)
    \/ \E w \in Workers : GetLockReturn(w)
    \/ \E w \in Workers : ReconcileLock(w)
    \/ \E w \in Workers : ReconcileBody(w)
    \/ \E w \in Workers : ReconcileUnlock(w)
    \/ CleanupEnter
    \/ CleanupLock
    \/ CleanupDelete
    \/ CleanupReturn

SpecLockFair == InitLock /\ [][NextLockFair]_vars /\ FairLock

----------------------------------------------------------------------------
(* Claims about the sharded lock *)

InBody(w) == wpc[w] \in {"body", "unlock"}

\* C1: at most one reconcile whose request maps to a given (namespace, name)
\* key is between lock.Lock() and the deferred Unlock at any time.
C1_OneReconcilePerKey ==
    \A w1, w2 \in Workers :
        (w1 # w2 /\ InBody(w1) /\ InBody(w2))
            => simpleImageStream(wreq[w1]) # simpleImageStream(wreq[w2])

\* C5: while cleanup() holds the map lock, no reconcile acquires its
\* per-stream mutex and begins the reconcile body.
C5_NoReconcileStartsDuringCleanup ==
    [][mapLock = Cleaner => \A w \in Workers : ~(wpc[w] = "lock" /\ wpc'[w] = "body")]_vars

\* The mutexes handed out so far are those numbered up to nextMutex.
C22_HandedOut ==
    /\ \A k \in StreamKeys : locks[k] <= nextMutex
    /\ \A w \in Workers : wmutex[w] <= nextMutex

C22_CleanupEmpties ==
    (cpc = "range" /\ cpc' = "idle") => \A k \in StreamKeys : locks'[k] = 0

C22_FreshMutex ==
    \A w \in Workers :
        (wpc[w] = "inGetLock" /\ wpc'[w] = "lock" /\ locks[simpleImageStream(wreq[w])] = 0) =>
            /\ wmutex'[w] = locks'[simpleImageStream(wreq[w])]
            /\ wmutex'[w] > nextMutex

\* C22: when cleanup() returns the lock map is empty, and a getLock for a
\* key that is not in the map returns a mutex that differs from every mutex
\* handed out before.
C22_FreshAfterCleanup ==
    []C22_HandedOut /\ [][C22_CleanupEmpties]_vars /\ [][C22_FreshMutex]_vars

\* C26: every cleanup() that was entered returns, and every reconcile that
\* got a mutex from getLock acquires it and, having acquired it, releases
\* it and returns: again and again the cleaner is outside cleanup(), and
\* again and again a reconcile is neither waiting for the mutex it got nor
\* holding any mutex.
C26_NoDeadlock ==
    /\ []<>(cpc = "idle")
    /\ \A w \in Workers :
          []<>(wpc[w] \notin {"lock", "body", "unlock"} /\ \A i \in 1..MaxMutex : mutexOwner[i] # w)

\* The cleaner holds the map lock and waits for a mutex that a reconcile
\* holds, while another reconcile waits for the map lock.
C26_Witness ==
    /\ cpc = "range"
    /\ \E k \in ckeys : mutexOwner[locks[k]] \in Workers
    /\ \E w \in Workers : wpc[w] = "getLock"

\* A reconcile still has the mutex its key had before a cleanup, and the
\* map holds a newer mutex for the key.
C22_Witness ==
    \E w \in Workers :
        /\ wmutex[w] # 0
        /\ cpc = "idle"
        /\ locks[simpleImageStream(wreq[w])] > wmutex[w]

----------------------------------------------------------------------------
(* reconcile's body: gathering, source selection, finalizing, syncing *)

\* The clusters hold the given states.
ClustersHold(a, b, d) ==
    LET cs == [c \in Clusters |->
                  IF c = "api.ci" THEN a ELSE IF c = "app.ci" THEN b ELSE d]
    IN  /\ nsExists = [c \in Clusters |-> cs[c].ns]
        /\ streams = [c \in Clusters |-> cs[c].stream]
        /\ tags = [c \in Clusters |-> cs[c].tag]

\* A reconcile of ci/a:x starts on clusters in a steady scenario (in either
\* mode of the reconciler) or in a deletion scenario.
InitRec ==
    /\ LockIdle
    /\ PromIdle
    /\ PlanIdle
    /\ AuxIdle
    /\ \/ /\ readOnly \in BOOLEAN
          /\ \E a \in SteadyStates("api.ci"), b \in SteadyStates("app.ci"),
                d \in SteadyStates("build01") : ClustersHold(a, b, d)
       \/ /\ readOnly = FALSE
          /\ \E a \in DeletionStates("api.ci"), b \in DeletionStates("app.ci"),
                d \in DeletionStates("build01") : ClustersHold(a, b, d)
    /\ rpc = "gather"
    /\ isTags = [c \in Clusters |-> NoTag]
    /\ srcClusterName = ""
    /\ srcStream = NoStream
    /\ todo = {}
    /\ calls = <<>>
    /\ result = ""

\* reconcile returns: nothing of the body runs afterwards.
Return(res) ==
    /\ rpc' = "done"
    /\ result' = res
    /\ todo' = {}

\* reconcile, lines 198-210: Get the ImageStreamTag from every cluster; a
\* cluster without it is skipped, any other failure is returned.
Gather ==
    /\ rpc = "gather"
    /\ \E fail \in BOOLEAN :
          IF fail
            THEN /\ Return("error")
                 /\ UNCHANGED isTags
            ELSE /\ isTags' = tags
                 /\ rpc' = "select"
                 /\ UNCHANGED <<result, todo>>
    /\ UNCHANGED <<auxVars, lockVars, promVars, planVars, readOnly, nsExists, streams, tags, srcClusterName, srcStream, calls>>

\* findNewest, lines 405-415, over one visiting order of the map: t starts
\* as the zero time and a tag replaces the result when t is before its time.
\* findNewest with the assignment t = isTag.Image.CreationTimestamp left out.
RECURSIVE findNewestFrom_KeepsT(_, _, _, _)
findNewestFrom_KeepsT(order, m, t, res) ==
    IF order = <<>> THEN res
    ELSE IF t < m[Head(order)].ts
           THEN findNewestFrom_KeepsT(Tail(order), m, t, Head(order))
           ELSE findNewestFrom_KeepsT(Tail(order), m, t, res)

RECURSIVE findNewestFrom(_, _, _, _)
findNewestFrom(order, m, t, res) ==
    IF order = <<>> THEN res
    ELSE IF t < m[Head(order)].ts
           THEN findNewestFrom(Tail(order), m, m[Head(order)].ts, Head(order))
           ELSE findNewestFrom(Tail(order), m, t, res)

findNewest(order, m) == findNewestFrom(order, m, 0, "")

Holders(m) == { c \in Clusters : m[c].exists }

\* reconcile, lines 212-218: pick the source; without one, return success.
SelectSource ==
    /\ rpc = "select"
    /\ \E order \in Orders(Holders(isTags)) :
          LET src == findNewest(order, isTags) IN
          /\ srcClusterName' = src
          /\ IF src = ""
               THEN Return("ok")
               ELSE /\ rpc' = "getStream"
                    /\ UNCHANGED <<result, todo>>
    /\ UNCHANGED <<auxVars, lockVars, promVars, planVars, readOnly, nsExists, streams, tags, isTags, srcStream, calls>>

Call(verb, c, kind) == <<verb, c, kind>>

\* reconcile, lines 220-233: Get the source ImageStream; when it is being
\* deleted, finalizeIfNeeded (lines 330-333) runs and nothing is synced.
GetSourceStream ==
    /\ rpc = "getStream"
    /\ calls' = Append(calls, Call("get", srcClusterName, "ImageStream"))
    /\ \E fail \in BOOLEAN :
          IF fail \/ ~streams[srcClusterName].exists
            THEN /\ Return("error")
                 /\ UNCHANGED srcStream
            ELSE /\ srcStream' = streams[srcClusterName]
                 /\ IF ~srcStream'.del
                      THEN /\ rpc' = "ensureFinalizer"
                           /\ UNCHANGED <<result, todo>>
                      ELSE IF ~srcStream'.fin
                             THEN Return("ok")
                             ELSE /\ rpc' = "finalize"
                                  /\ todo' = Clusters \ {srcClusterName}
                                  /\ UNCHANGED result
    /\ UNCHANGED <<auxVars, lockVars, promVars, planVars, readOnly, nsExists, streams, tags, isTags, srcClusterName>>

\* What a cluster keeps of a stream once the sync finalizer is off and a
\* Delete was accepted: a stream that was already being deleted without the
\* sync finalizer is held by someone else's finalizer and stays.
AfterDelete(st) == IF st.del THEN [st EXCEPT !.fin = FALSE] ELSE NoStream

\* finalizeIfNeeded, lines 334-355, one iteration for a non-source cluster:
\* Get the stream (absent: next cluster), ensureRemoveFinalizer (lines
\* 361-370), Delete. Any failure is returned.
FinalizeCluster(c) ==
    /\ rpc = "finalize"
    /\ c \in todo
    /\ \E fault \in {"none", "get", "patch", "delete"} :
          LET st == streams[c]
              get == <<Call("get", c, "ImageStream")>>
              patch == IF st.fin THEN <<Call("patch-remove-finalizer", c, "ImageStream")>> ELSE <<>>
              del == <<Call("delete", c, "ImageStream")>>
          IN
          /\ fault = "patch" => st.exists /\ st.fin
          /\ fault = "delete" => st.exists
          /\ IF fault = "get"
               THEN /\ calls' = calls \o get
                    /\ Return("error")
                    /\ UNCHANGED <<streams, tags>>
               ELSE IF ~st.exists
               THEN /\ calls' = calls \o get
                    /\ todo' = todo \ {c}
                    /\ UNCHANGED <<rpc, result, streams, tags>>
               ELSE IF fault = "patch"
               THEN /\ calls' = calls \o get \o patch
                    /\ Return("error")
                    /\ UNCHANGED <<streams, tags>>
               ELSE IF fault = "delete"
               THEN /\ calls' = calls \o get \o patch \o del
                    /\ streams' = [streams EXCEPT ![c].fin = FALSE]
                    /\ Return("error")
                    /\ UNCHANGED tags
               ELSE /\ calls' = calls \o get \o patch \o del
                    /\ streams' = [streams EXCEPT ![c] = AfterDelete(st)]
                    /\ tags' = [tags EXCEPT ![c] = IF AfterDelete(st).exists THEN @ ELSE NoTag]
                    /\ todo' = todo \ {c}
                    /\ UNCHANGED <<rpc, result>>
    /\ UNCHANGED <<auxVars, lockVars, promVars, planVars, readOnly, nsExists, isTags, srcClusterName, srcStream>>

\* finalizeIfNeeded removing the source's finalizer before the loop over the
\* other clusters is over.
FinalizeSource_Early ==
    /\ rpc = "finalize"
    /\ calls' = Append(calls, Call("patch-remove-finalizer", srcClusterName, "ImageStream"))
    /\ streams' = [streams EXCEPT ![srcClusterName].fin = FALSE]
    /\ Return("ok")
    /\ UNCHANGED <<auxVars, lockVars, promVars, planVars, readOnly, nsExists, tags, isTags, srcClusterName, srcStream>>

\* finalizeIfNeeded, lines 357-358, then reconcile lines 228-232: remove
\* the finalizer from the source stream and return.
FinalizeSource ==
    /\ rpc = "finalize"
    /\ todo = {}
    /\ calls' = Append(calls, Call("patch-remove-finalizer", srcClusterName, "ImageStream"))
    /\ \E fail \in BOOLEAN :
          IF fail
            THEN /\ Return("error")
                 /\ UNCHANGED streams
            ELSE /\ streams' = [streams EXCEPT ![srcClusterName].fin = FALSE]
                 /\ Return("ok")
    /\ UNCHANGED <<auxVars, lockVars, promVars, planVars, readOnly, nsExists, tags, isTags, srcClusterName, srcStream>>

\* reconcile, lines 235-237, and ensureFinalizer, lines 372-379: patch the
\* finalizer onto the source stream unless it is there.
EnsureFinalizer ==
    /\ rpc = "ensureFinalizer"
    /\ \E fail \in BOOLEAN :
          /\ fail => ~srcStream.fin
          /\ IF srcStream.fin
               THEN /\ rpc' = "sync"
                    /\ todo' = Clusters \ {srcClusterName}
                    /\ UNCHANGED <<calls, streams, result>>
               ELSE /\ calls' = Append(calls, Call("patch-add-finalizer", srcClusterName, "ImageStream"))
                    /\ IF fail
                         THEN /\ Return("error")
                              /\ UNCHANGED streams
                         ELSE /\ streams' = [streams EXCEPT ![srcClusterName].fin = TRUE]
                              /\ rpc' = "sync"
                              /\ todo' = Clusters \ {srcClusterName}
                              /\ UNCHANGED result
    /\ UNCHANGED <<auxVars, lockVars, promVars, planVars, readOnly, nsExists, tags, isTags, srcClusterName, srcStream>>

dockerImageImportedFromTargetingCluster_Never(cluster, tag) == FALSE

\* dockerImageImportedFromTargetingCluster, lines 381-387.
dockerImageImportedFromTargetingCluster(cluster, tag) ==
    /\ tag.from # NoFrom
    /\ \/ HasPrefix(tag.from, ServiceDomainAPICIRegistry) /\ cluster = "api.ci"
       \/ HasPrefix(tag.from, ServiceDomainAPPCIRegistry) /\ cluster = "app.ci"

\* api.DomainForService(api.ServiceRegistry)
DomainForServiceRegistry == <<"registry.svc.ci.openshift.org">>

\* domainForClusterName, lines 529-537; <<>> stands for the error.
domainForClusterName(clusterName) ==
    IF clusterName = "api.ci" THEN DomainForServiceRegistry
    ELSE IF clusterName = "app.ci" THEN ServiceDomainAPPCIRegistry
    ELSE <<>>

\* publicDomainForImage returning the pull spec as it got it.
publicDomainForImage_NoRewrite(clusterName, potentiallyPrivate) ==
    IF domainForClusterName(clusterName) = <<>> THEN [ok |-> FALSE, name |-> <<>>]
    ELSE [ok |-> TRUE, name |-> potentiallyPrivate]

\* publicDomainForImage, lines 516-527.
publicDomainForImage(clusterName, potentiallyPrivate) ==
    LET d == domainForClusterName(clusterName)
        svcDomainAndPort ==
            IF clusterName = "api.ci" THEN <<"docker-registry.default.svc:5000">>
            ELSE <<"image-registry.openshift-image-registry.svc:5000">>
    IN  IF d = <<>> THEN [ok |-> FALSE, name |-> <<>>]
        ELSE [ok |-> TRUE, name |-> ReplaceAll(potentiallyPrivate, svcDomainAndPort, d)]

ImportCall(c, from, to, policy) == <<"import", c, from, to, policy>>

CountImportResult(c, outcome) == <<"count", c, outcome>>

\* What the server makes of the ImageStreamImport: the tag of cluster c
\* afterwards. A rejected request and an import that yields no image leave
\* the tag as it was.
ImportedTag(c, fault, img, importedAt, from) ==
    IF fault \in {"import", "noImageInStatus"} THEN tags[c]
    ELSE [exists |-> TRUE, img |-> img, ts |-> importedAt, from |-> from]

\* createAndCheckStatus that trusts a created request.
createAndCheckStatus_CreateOnly(fault) ==
    IF fault = "import" THEN "failed to import Image" ELSE "ok"

\* createAndCheckStatus, lines 389-403: the Create fails, or the status it
\* returns holds no image.
createAndCheckStatus(fault) ==
    IF fault = "import" THEN "failed to import Image"
    ELSE IF fault = "noImageInStatus" THEN "imageStreamImport did not succeed"
    ELSE "ok"

SyncFaults ==
    {"none", "getNamespace", "createNamespace", "ensureImageStream", "poll",
     "ensureImagePullSecret", "import", "noImageInStatus"}

\* reconcile, lines 241-325, one iteration of the loop for cluster c with the
\* failure `fault` injected and an import, if it succeeds, yielding an image
\* created at importedAt: the calls issued, what the cluster holds
\* afterwards, and how the iteration ends ("continue", or reconcile returns
\* "ok" or "error").
SyncIteration(c, fault, importedAt) ==
    LET srcTag == isTags[srcClusterName]
        needNs == ~nsExists[c]
        ensured == IF streams[c].exists THEN streams[c]
                   ELSE [exists |-> TRUE, fin |-> FALSE, del |-> FALSE]
        pub == publicDomainForImage(srcClusterName,
                                    DockerImageReference(srcClusterName, srcTag.img))
        k1 == <<Call("get", c, "Namespace")>>
        k2 == k1 \o (IF needNs THEN <<Call("create", c, "Namespace")>> ELSE <<>>)
        k3 == Append(k2, Call("upsert", c, "ImageStream"))
        k4 == Append(k3, Call("get", c, "ImageStream"))
        k5 == Append(k4, Call("upsert", c, "Secret"))
        k6 == Append(k5, ImportCall(c, pub.name, ImageTag, "Local"))
        out(k, ns, st, tg, ret) ==
            [calls |-> k, ns |-> ns, stream |-> st, tag |-> tg, ret |-> ret]
    IN
    IF dockerImageImportedFromTargetingCluster(c, srcTag)
      THEN out(<<>>, nsExists[c], streams[c], tags[c], "continue")
    ELSE IF fault = "getNamespace"
      THEN out(k1, nsExists[c], streams[c], tags[c], "error")
    ELSE IF needNs /\ fault = "createNamespace"
      THEN out(k2, nsExists[c], streams[c], tags[c], "error")
    ELSE IF fault = "ensureImageStream"
      THEN out(k3, TRUE, streams[c], tags[c], "error")
    ELSE IF fault = "poll"
      THEN out(k4, TRUE, ensured, tags[c], "error")
    ELSE IF isTags[c].exists /\ isTags[c].img = srcTag.img
      THEN out(k4, TRUE, ensured, tags[c], "ok")
    ELSE IF fault = "ensureImagePullSecret"
      THEN out(k4 \o <<Call("upsert", c, "Secret")>>, TRUE, ensured, tags[c], "error")
    ELSE IF ~pub.ok
      THEN out(k5, TRUE, ensured, tags[c], "error")
    ELSE IF readOnly
      THEN out(k5, TRUE, ensured, tags[c], "ok")
    ELSE IF createAndCheckStatus(fault) # "ok"
      THEN out(Append(k6, CountImportResult(c, "false")), TRUE, ensured,
               ImportedTag(c, fault, srcTag.img, importedAt, pub.name), "error")
    ELSE out(Append(k6, CountImportResult(c, "true")), TRUE, ensured,
             ImportedTag(c, fault, srcTag.img, importedAt, pub.name), "continue")

\* The failures that can be injected into the iteration for cluster c: each
\* names a call the iteration reaches.
Reaches(c, fault) ==
    LET srcTag == isTags[srcClusterName]
        current == isTags[c].exists /\ isTags[c].img = srcTag.img
        importing == /\ ~current
                     /\ ~readOnly
                     /\ domainForClusterName(srcClusterName) # <<>>
    IN  \/ fault = "none"
        \/ /\ ~dockerImageImportedFromTargetingCluster(c, srcTag)
           /\ \/ fault \in {"getNamespace", "ensureImageStream", "poll"}
              \/ fault = "createNamespace" /\ ~nsExists[c]
              \/ fault = "ensureImagePullSecret" /\ ~current
              \/ fault \in {"import", "noImageInStatus"} /\ importing

\* reconcile, lines 241-326: the loop over the non-source clusters, and the
\* return that follows the last iteration.
SyncCluster(c) ==
    /\ rpc = "sync"
    /\ c \in todo
    /\ \E fault \in { f \in SyncFaults : Reaches(c, f) },
          importedAt \in 1..MaxTime :
          LET o == SyncIteration(c, fault, importedAt) IN
          /\ fault # "none" => importedAt = 1
          /\ calls' = calls \o o.calls
          /\ nsExists' = [nsExists EXCEPT ![c] = o.ns]
          /\ streams' = [streams EXCEPT ![c] = o.stream]
          /\ tags' = [tags EXCEPT ![c] = o.tag]
          /\ IF o.ret = "continue" /\ todo # {c}
               THEN /\ todo' = todo \ {c}
                    /\ UNCHANGED <<rpc, result>>
               ELSE Return(IF o.ret = "error" THEN "error" ELSE "ok")
    /\ UNCHANGED <<auxVars, lockVars, promVars, planVars, readOnly, isTags, srcClusterName, srcStream>>

NextRec ==
    \/ Gather
    \/ SelectSource
    \/ GetSourceStream
    \/ \E c \in Clusters : FinalizeCluster(c)
    \/ FinalizeSource
    \/ EnsureFinalizer
    \/ \E c \in Clusters : SyncCluster(c)

SpecRec == InitRec /\ [][NextRec]_vars

\* What a cluster with a public registry may hold when the reconciles of
\* ci/a:x repeat: nothing, or the stream with the sync finalizer and the tag,
\* deleted or not; the tags vary in image and creation time. The build
\* cluster starts empty and holds what the reconciles bring to it.
RepeatStates(c) ==
    {ClusterState(FALSE, NoStream, NoTag)}
      \cup { ClusterState(TRUE, Stream(TRUE, d),
                          [exists |-> TRUE, img |-> i, ts |-> t, from |-> NoFrom]) :
                d \in BOOLEAN, i \in ImageNames, t \in 1..MaxTime }

InitRecAgain ==
    /\ LockIdle
    /\ PromIdle
    /\ PlanIdle
    /\ AuxIdle
    /\ readOnly = FALSE
    /\ \E a \in RepeatStates("api.ci"), b \in RepeatStates("app.ci") :
          ClustersHold(a, b, ClusterState(FALSE, NoStream, NoTag))
    /\ rpc = "gather"
    /\ isTags = [c \in Clusters |-> NoTag]
    /\ srcClusterName = ""
    /\ srcStream = NoStream
    /\ todo = {}
    /\ calls = <<>>
    /\ result = ""

\* The controller calls reconcile again for the same request (an event of
\* the handler, lines 148-155, or the requeue after an error): the call
\* starts with fresh locals on the clusters as the last call left them.
ReconcileAgain ==
    /\ rpc = "done"
    /\ rpc' = "gather"
    /\ isTags' = [c \in Clusters |-> NoTag]
    /\ srcClusterName' = ""
    /\ srcStream' = NoStream
    /\ todo' = {}
    /\ calls' = <<>>
    /\ result' = ""
    /\ UNCHANGED <<auxVars, lockVars, promVars, planVars, readOnly, nsExists, streams, tags>>

NextRecAgain ==
    \/ Gather
    \/ SelectSource
    \/ GetSourceStream
    \/ \E c \in Clusters : FinalizeCluster(c)
    \/ FinalizeSource
    \/ EnsureFinalizer
    \/ \E c \in Clusters : SyncCluster(c)
    \/ ReconcileAgain

\* The controller keeps running: a reconcile that can take a step takes it,
\* and a reconcile that has returned is followed by another.
FairRec == WF_vars(NextRecAgain)

SpecRecAgain == InitRecAgain /\ [][NextRecAgain]_vars /\ FairRec

----------------------------------------------------------------------------
(* The event handler and its filter (registrysyncer.go) *)

\* types.NamespacedName.String()
NamespacedString(namespace, name) == <<namespace, "/">> \o name

\* imageStreamNameFromImageStreamTagName, lines 508-514.
imageStreamNameFromImageStreamTagName(n) ==
    LET colonSplit == Split(n.Name, ":") IN
    IF Len(colonSplit) # 2
      THEN [err |-> TRUE, name |-> [Namespace |-> "", Name |-> <<>>]]
      ELSE [err |-> FALSE, name |-> [Namespace |-> n.Namespace, Name |-> colonSplit[1]]]

\* The filter with the denied streams looked at after the inclusion rules.
testInputImageStreamTagFilter_DeniedLast(sets, n) ==
    LET r == imageStreamNameFromImageStreamTagName(n)
        imageStreamName == NamespacedString(r.name.Namespace, r.name.Name)
    IN  IF r.err THEN FALSE
        ELSE IF NamespacedString(n.Namespace, n.Name) \in sets.imageStreamTags THEN TRUE
        ELSE IF n.Namespace \in sets.imageStreamNamespaces THEN TRUE
        ELSE IF imageStreamName \in sets.imageStreams THEN TRUE
        ELSE IF \E prefix \in sets.imageStreamPrefixes : HasPrefix(imageStreamName, prefix)
          THEN TRUE
        ELSE FALSE

\* The function testInputImageStreamTagFilterFactory returns, lines 481-504.
testInputImageStreamTagFilter(sets, n) ==
    LET r == imageStreamNameFromImageStreamTagName(n)
        imageStreamName == NamespacedString(r.name.Namespace, r.name.Name)
    IN  IF r.err THEN FALSE
        ELSE IF imageStreamName \in sets.deniedImageStreams THEN FALSE
        ELSE IF NamespacedString(n.Namespace, n.Name) \in sets.imageStreamTags THEN TRUE
        ELSE IF n.Namespace \in sets.imageStreamNamespaces THEN TRUE
        ELSE IF imageStreamName \in sets.imageStreams THEN TRUE
        ELSE IF \E prefix \in sets.imageStreamPrefixes : HasPrefix(imageStreamName, prefix)
          THEN TRUE
        ELSE FALSE

\* The requests that reach the handler and the sets the filter is made of.
FilterNamespaces == {"ci", "ocp"}

FilterNames ==
    { <<"a", ":", "x">>, <<"a", "b", ":", "x">>, <<"a">>, <<"a", ":", "x", ":", "y">> }

FilterTagSets == SUBSET { <<"ci", "/", "a", ":", "x">> }

FilterStreamSets == SUBSET { <<"ci", "/", "a", "b">> }

FilterPrefixSets == SUBSET { <<"ci", "/", "a">>, <<"ocp", "/">> }

FilterNamespaceSets == SUBSET { "ocp" }

FilterDeniedSets == SUBSET { <<"ci", "/", "a">>, <<"ocp", "/", "a", "b">> }

InitFilter ==
    /\ LockIdle /\ RecIdle /\ PromIdle /\ PlanIdle
    /\ filterSets \in [imageStreamTags : FilterTagSets, imageStreams : FilterStreamSets,
                       imageStreamPrefixes : FilterPrefixSets,
                       imageStreamNamespaces : FilterNamespaceSets,
                       deniedImageStreams : FilterDeniedSets]
    /\ nn \in [Namespace : FilterNamespaces, Name : FilterNames]
    /\ fpc = "event"
    /\ admitted = FALSE
    /\ enqueued = <<>>
    /\ HelpersIdle

\* handlerFactory, lines 148-155: the request is returned when the filter
\* admits it, nothing otherwise.
Handle ==
    /\ fpc = "event"
    /\ admitted' = testInputImageStreamTagFilter(filterSets, nn)
    /\ enqueued' = IF admitted' THEN <<nn>> ELSE <<>>
    /\ fpc' = "handled"
    /\ UNCHANGED <<lockVars, recVars, promVars, planVars, helperVars, filterSets, nn>>

NextFilter == Handle

SpecFilter == InitFilter /\ [][NextFilter]_vars

----------------------------------------------------------------------------
(* The promotion step: toPromote (promote.go) *)

\* Go maps are functions over their key set.
EmptyMap == [k \in {} |-> k]

MapPut(m, k, v) == [x \in (DOMAIN m) \cup {k} |-> IF x = k THEN v ELSE m[x]]

MapDelete(m, k) == [x \in (DOMAIN m) \ {k} |-> m[x]]

\* lines 333-340 with the test of line 336 left out.
RECURSIVE IncludeImages_IgnoresOptional(_, _, _)
IncludeImages_IgnoresOptional(imgs, required, acc) ==
    IF imgs = <<>> THEN acc
    ELSE LET tag == Head(imgs).To IN
         IncludeImages_IgnoresOptional(Tail(imgs), required,
             [tagsByDst |-> MapPut(acc.tagsByDst, tag, tag), names |-> acc.names \cup {tag}])

\* lines 333-340: an image is included if it is required or is not optional.
RECURSIVE IncludeImages(_, _, _)
IncludeImages(imgs, required, acc) ==
    IF imgs = <<>> THEN acc
    ELSE LET tag == Head(imgs).To IN
         IF tag \in required \/ ~Head(imgs).Optional
           THEN IncludeImages(Tail(imgs), required,
                    [tagsByDst |-> MapPut(acc.tagsByDst, tag, tag), names |-> acc.names \cup {tag}])
           ELSE IncludeImages(Tail(imgs), required, acc)

\* lines 341-344, with the deletion from the mapping left out.
RECURSIVE ExcludeImages_NamesOnly(_, _)
ExcludeImages_NamesOnly(excluded, acc) ==
    IF excluded = <<>> THEN acc
    ELSE ExcludeImages_NamesOnly(Tail(excluded),
             [tagsByDst |-> acc.tagsByDst, names |-> acc.names \ {Head(excluded)}])

\* lines 341-344: every excluded tag leaves the mapping and the names.
RECURSIVE ExcludeImages(_, _)
ExcludeImages(excluded, acc) ==
    IF excluded = <<>> THEN acc
    ELSE ExcludeImages(Tail(excluded),
             [tagsByDst |-> MapDelete(acc.tagsByDst, Head(excluded)),
              names |-> acc.names \ {Head(excluded)}])

\* lines 345-348: the additional images are put over what is there.
RECURSIVE AddImages(_, _, _)
AddImages(additional, left, acc) ==
    IF left = {} THEN acc
    ELSE LET dst == CHOOSE d \in left : TRUE IN
         AddImages(additional, left \ {dst},
             [tagsByDst |-> MapPut(acc.tagsByDst, dst, additional[dst]),
              names |-> acc.names \cup {dst}])

\* lines 354-360: the destinations are prefixed, into a new map and set.
RECURSIVE PrefixNames(_, _, _, _)
PrefixNames(prefix, tagsByDst, left, acc) ==
    IF left = {} THEN acc
    ELSE LET dst == CHOOSE d \in left : TRUE
             name == prefix \o dst
         IN PrefixNames(prefix, tagsByDst, left \ {dst},
                [tagsByDst |-> MapPut(acc.tagsByDst, name, tagsByDst[dst]),
                 names |-> acc.names \cup {name}])

NothingToPromote == [tagsByDst |-> EmptyMap, names |-> {}]

\* toPromote with the loop of lines 341-344 run before the loop of lines 333-340.
toPromote_ExcludesFirst(cfg, imgs, required) ==
    IF cfg.Disabled THEN NothingToPromote
    ELSE LET kept == ExcludeImages(cfg.ExcludedImages, NothingToPromote)
             included == IncludeImages(imgs, required, kept)
             added == AddImages(cfg.AdditionalImages, DOMAIN cfg.AdditionalImages, included)
         IN IF cfg.NamePrefix = <<>> THEN added
            ELSE PrefixNames(cfg.NamePrefix, added.tagsByDst, DOMAIN added.tagsByDst,
                             NothingToPromote)

\* toPromote without the check of lines 329-331.
toPromote_IgnoresDisabled(cfg, imgs, required) ==
    LET included == IncludeImages(imgs, required, NothingToPromote)
        kept == ExcludeImages(cfg.ExcludedImages, included)
        added == AddImages(cfg.AdditionalImages, DOMAIN cfg.AdditionalImages, kept)
    IN IF cfg.NamePrefix = <<>> THEN added
       ELSE PrefixNames(cfg.NamePrefix, added.tagsByDst, DOMAIN added.tagsByDst,
                        NothingToPromote)

toPromote(cfg, imgs, required) ==
    IF cfg.Disabled THEN NothingToPromote
    ELSE LET included == IncludeImages(imgs, required, NothingToPromote)
             kept == ExcludeImages(cfg.ExcludedImages, included)
             added == AddImages(cfg.AdditionalImages, DOMAIN cfg.AdditionalImages, kept)
         IN IF cfg.NamePrefix = <<>> THEN added
            ELSE PrefixNames(cfg.NamePrefix, added.tagsByDst, DOMAIN added.tagsByDst,
                             NothingToPromote)

\* Inputs of toPromote.
TagNames == {<<"a">>, <<"b">>}

AdditionalDsts == {<<"a">>, <<"c">>}

AdditionalSrcs == {<<"b">>, <<"s">>}

SeqsUpTo(S, n) == UNION { [1..k -> S] : k \in 0..n }

ImageLists == SeqsUpTo([To : TagNames, Optional : BOOLEAN], MaxImages)

ExcludedLists == SeqsUpTo(TagNames, MaxExcluded)

AdditionalMaps == UNION { [D -> AdditionalSrcs] : D \in SUBSET AdditionalDsts }

Prefixes == {<<>>, <<"p">>}

----------------------------------------------------------------------------
(* The promotion step: run (promote.go) *)

Steps == 20

ConfigNamespace == <<"n", "s">>

PromotionConfig(disabled, name, prefix, excluded, additional) ==
    [Disabled |-> disabled, Name |-> name, Tag |-> IF name = <<>> THEN <<"t">> ELSE <<>>,
     NamePrefix |-> prefix, ExcludedImages |-> excluded, AdditionalImages |-> additional]

StepFresh ==
    /\ ppc = "start"
    /\ promTags = <<>>
    /\ promNames = {}
    /\ ptodo = {}
    /\ pcur = <<>>
    /\ attempts = 0
    /\ lastErr = ""
    /\ pcalls = <<>>
    /\ presult = ""

\* The inputs of toPromote range over all their combinations; the rest of
\* the step is fixed.
InitToPromote ==
    /\ LockIdle /\ RecIdle /\ PlanIdle /\ AuxIdle
    /\ \E disabled \in BOOLEAN, prefix \in Prefixes, excluded \in ExcludedLists,
          additional \in AdditionalMaps :
          config = PromotionConfig(disabled, <<"n">>, prefix, excluded, additional)
    /\ images \in ImageLists
    /\ requiredImages \in SUBSET TagNames
    /\ pushSecret = FALSE
    /\ imageCreatorClient = FALSE
    /\ pipeline = {}
    /\ dstStreams = {}
    /\ dstSpecTags = <<>>
    /\ dstImageTags = {}
    /\ StepFresh

\* Image lists of the promotion runs.
RunImageLists ==
    { <<>>,
      <<[To |-> <<"a">>, Optional |-> FALSE]>>,
      <<[To |-> <<"a">>, Optional |-> FALSE], [To |-> <<"b">>, Optional |-> FALSE]>> }

InitPromote ==
    /\ LockIdle /\ RecIdle /\ PlanIdle /\ AuxIdle
    /\ \E disabled \in BOOLEAN, name \in {<<>>, <<"n">>} :
          config = PromotionConfig(disabled, name, <<>>, <<>>, EmptyMap)
    /\ images \in RunImageLists
    /\ requiredImages = {}
    /\ pushSecret \in BOOLEAN
    /\ imageCreatorClient \in BOOLEAN
    /\ pipeline \in SUBSET TagNames
    /\ dstStreams \in SUBSET {<<"n">>, <<"a">>}
    /\ dstSpecTags = <<>>
    /\ dstImageTags = {}
    /\ StepFresh

\* run returns err ("ok" for nil); a panic ends the run as well.
PReturn(res) ==
    /\ ppc' = "done"
    /\ presult' = res

PCall(verb, kind, name) == <<verb, kind, name>>

\* lines 70-74: the tag mapping is computed, nothing to promote ends the run.
RunStart ==
    /\ ppc = "start"
    /\ LET r == toPromote(config, images, requiredImages) IN
       /\ promTags' = r.tagsByDst
       /\ promNames' = r.names
       /\ IF r.names = {}
            THEN PReturn("ok")
            ELSE ppc' = "getPipeline" /\ UNCHANGED presult
    /\ UNCHANGED <<auxVars, lockVars, recVars, planVars, config, images, requiredImages, pushSecret,
                   imageCreatorClient, pipeline, dstStreams, dstSpecTags, dstImageTags,
                   ptodo, pcur, attempts, lastErr, pcalls>>

\* lines 77-83 and the branching of lines 85, 112 and 143.
GetPipeline ==
    /\ ppc = "getPipeline"
    /\ pcalls' = Append(pcalls, PCall("get", "src.ImageStream", <<"pipeline">>))
    /\ \E fail \in BOOLEAN :
          IF fail
            THEN PReturn("could not resolve pipeline imagestream") /\ UNCHANGED ptodo
            ELSE /\ ppc' = IF pushSecret THEN "pushSecret"
                           ELSE IF Len(config.Name) > 0 THEN "name" ELSE "tag"
                 /\ ptodo' = IF pushSecret \/ Len(config.Name) > 0 THEN {} ELSE DOMAIN promTags
                 /\ UNCHANGED presult
    /\ UNCHANGED <<auxVars, lockVars, recVars, planVars, config, images, requiredImages, pushSecret,
                   imageCreatorClient, pipeline, dstStreams, dstSpecTags, dstImageTags,
                   promTags, promNames, pcur, attempts, lastErr>>

\* lines 85-91: a client that is there ends the run with the error; with a
\* nil client the check passes and line 91 calls Get on the nil interface,
\* which panics.
PushSecretPath ==
    /\ ppc = "pushSecret"
    /\ IF imageCreatorClient
         THEN PReturn("image-creator client is nil")
         ELSE PReturn("panic: nil pointer dereference")
    /\ UNCHANGED <<auxVars, lockVars, recVars, planVars, config, images, requiredImages, pushSecret,
                   imageCreatorClient, pipeline, dstStreams, dstSpecTags, dstImageTags,
                   promTags, promNames, ptodo, pcur, attempts, lastErr, pcalls>>

\* retry.RetryOnConflict with every error taken for a conflict.
RetryOnAnyError(n, err) ==
    IF err # "ok" /\ n < Steps THEN "retry" ELSE "return"

\* retry.RetryOnConflict(promotionRetry, fn) after the n-th call of fn has
\* returned err: fn is called again only after a conflict and while fewer
\* than promotionRetry.Steps calls were made; otherwise err is returned.
RetryOnConflict(n, err) ==
    IF err = "conflict" /\ n < Steps THEN "retry" ELSE "return"

\* lines 124-131: the tag references appended to is.Spec.Tags, in the order
\* the range loop visits the mapping.
RECURSIVE AppendTags(_, _, _)
AppendTags(order, tagsByDst, pipe) ==
    IF order = <<>> THEN <<>>
    ELSE (IF tagsByDst[Head(order)] \in pipe
            THEN <<[Name |-> Head(order), From |-> tagsByDst[Head(order)]]>>
            ELSE <<>>) \o AppendTags(Tail(order), tagsByDst, pipe)

UpdateResults == {"ok", "conflict", "other"}

\* lines 113-140: one call of the closure of the Name path, and what
\* RetryOnConflict does with its result.
NameAttempt ==
    /\ ppc = "name"
    /\ \E getFail, createFail \in BOOLEAN, upd \in UpdateResults, order \in Orders(DOMAIN promTags) :
          LET name == config.Name
              found == ~getFail /\ name \in dstStreams
              notFound == ~getFail /\ name \notin dstStreams
              createErr == notFound /\ createFail
              is == (IF found THEN dstSpecTags ELSE <<>>) \o AppendTags(order, promTags, pipeline)
              err == IF createErr THEN "could not retrieve target imagestream"
                     ELSE IF upd = "other" THEN "could not promote image streams"
                     ELSE upd
              n == attempts + 1
          IN /\ createFail => notFound
             \* after a failed Get the object sent to Update has no name
             /\ (getFail \/ createErr) => upd = "other"
             /\ pcalls' = pcalls \o <<PCall("get", "ImageStream", name)>>
                            \o (IF notFound THEN <<PCall("create", "ImageStream", name)>> ELSE <<>>)
                            \o (IF createErr THEN <<>> ELSE <<PCall("update", "ImageStream", name)>>)
             /\ dstStreams' = IF notFound /\ ~createFail THEN dstStreams \cup {name} ELSE dstStreams
             /\ dstSpecTags' = IF err = "ok" THEN is ELSE dstSpecTags
             /\ attempts' = n
             /\ lastErr' = err
             /\ IF RetryOnConflict(n, err) = "retry"
                  THEN UNCHANGED <<ppc, presult>>
                  ELSE PReturn(err)
    /\ UNCHANGED <<auxVars, lockVars, recVars, planVars, config, images, requiredImages, pushSecret,
                   imageCreatorClient, pipeline, dstImageTags, promTags, promNames, ptodo, pcur>>

\* lines 143-147 and 186-190: the range loop of the Tag path takes the next
\* destination; a source tag missing from the pipeline is skipped.
TagNext ==
    /\ ppc = "tag"
    /\ \E dst \in ptodo :
          /\ ptodo' = ptodo \ {dst}
          /\ IF promTags[dst] \in pipeline
               THEN /\ ppc' = "tagRetry"
                    /\ pcur' = dst
                    /\ attempts' = 0
                    /\ lastErr' = ""
                    /\ UNCHANGED presult
               ELSE /\ IF ptodo' = {} THEN PReturn("ok") ELSE UNCHANGED <<ppc, presult>>
                    /\ UNCHANGED <<pcur, attempts, lastErr>>
    /\ UNCHANGED <<auxVars, lockVars, recVars, planVars, config, images, requiredImages, pushSecret,
                   imageCreatorClient, pipeline, dstStreams, dstSpecTags, dstImageTags,
                   promTags, promNames, pcalls>>

\* lines 149-188: one call of the closure of the Tag path, and what
\* RetryOnConflict and the loop do with its result.
TagAttempt ==
    /\ ppc = "tagRetry"
    /\ \E getFail, createFail \in BOOLEAN, upd \in UpdateResults :
          LET found == ~getFail /\ pcur \in dstStreams
              notFound == ~getFail /\ pcur \notin dstStreams
              ensureErr == getFail \/ (notFound /\ createFail)
              err == IF ensureErr THEN "could not ensure target imagestream"
                     ELSE IF upd = "other" THEN "could not promote imagestreamtag"
                     ELSE upd
              n == attempts + 1
          IN /\ createFail => notFound
             /\ ensureErr => upd = "other"
             /\ pcalls' = pcalls \o <<PCall("get", "ImageStream", pcur)>>
                            \o (IF notFound THEN <<PCall("create", "ImageStream", pcur)>> ELSE <<>>)
                            \o (IF ensureErr THEN <<>>
                                ELSE <<PCall("update", "ImageStreamTag", pcur \o <<":">> \o config.Tag)>>)
             /\ dstStreams' = IF notFound /\ ~createFail THEN dstStreams \cup {pcur} ELSE dstStreams
             /\ dstImageTags' = IF err = "ok" THEN dstImageTags \cup {pcur} ELSE dstImageTags
             /\ attempts' = n
             /\ lastErr' = err
             /\ IF RetryOnConflict(n, err) = "retry" THEN UNCHANGED <<ppc, presult>>
                ELSE IF err # "ok" THEN PReturn(err)
                ELSE IF ptodo = {} THEN PReturn("ok")
                ELSE ppc' = "tag" /\ UNCHANGED presult
    /\ UNCHANGED <<auxVars, lockVars, recVars, planVars, config, images, requiredImages, pushSecret,
                   imageCreatorClient, pipeline, dstSpecTags, promTags, promNames, ptodo, pcur>>

NextToPromote == RunStart

SpecToPromote == InitToPromote /\ [][NextToPromote]_vars

NextPromote ==
    \/ RunStart
    \/ GetPipeline
    \/ PushSecretPath
    \/ NameAttempt
    \/ TagNext
    \/ TagAttempt

SpecPromote == InitPromote /\ [][NextPromote]_vars

\* The step runs again with the same inputs (the next job that promotes
\* the same images): run starts afresh on the destination as the last run
\* left it. The runs go on until the stream holds MaxSpecTags spec tags.
RunAgain ==
    /\ ppc = "done"
    /\ Len(dstSpecTags) < MaxSpecTags
    /\ ppc' = "start"
    /\ promTags' = <<>>
    /\ promNames' = {}
    /\ ptodo' = {}
    /\ pcur' = <<>>
    /\ attempts' = 0
    /\ lastErr' = ""
    /\ pcalls' = <<>>
    /\ presult' = ""
    /\ UNCHANGED <<auxVars, lockVars, recVars, planVars, config, images, requiredImages, pushSecret,
                   imageCreatorClient, pipeline, dstStreams, dstSpecTags, dstImageTags>>

NextPromoteAgain ==
    \/ RunStart
    \/ GetPipeline
    \/ PushSecretPath
    \/ NameAttempt
    \/ TagNext
    \/ TagAttempt
    \/ RunAgain

SpecPromoteAgain == InitPromote /\ [][NextPromoteAgain]_vars

----------------------------------------------------------------------------
(* The promotion step's helper functions (promote.go) *)

\* The reference PromotedTags builds for a destination, with the Name
\* branch taken for every configuration.
PromotedTag_NameOnly(cfg, dst) ==
    [Namespace |-> ConfigNamespace, Name |-> cfg.Name, Tag |-> dst]

\* PromotedTags, lines 374-386: the reference built for a destination.
PromotedTag(cfg, dst) ==
    IF cfg.Name # <<>>
      THEN [Namespace |-> ConfigNamespace, Name |-> cfg.Name, Tag |-> dst]
      ELSE [Namespace |-> ConfigNamespace, Name |-> dst, Tag |-> cfg.Tag]

\* PromotedTags, lines 366-390; order is the order in which the range loop
\* visits the mapping.
PromotedTags(present, cfg, imgs, order) ==
    IF ~present THEN <<>>
    ELSE [i \in 1..Len(order) |-> PromotedTag(cfg, order[i])]

\* strings.Contains
Contains(str, sub) ==
    \E i \in 1..(Len(str) - Len(sub) + 1) : SubSeq(str, i, i + Len(sub) - 1) = sub

\* strings.Replace(str, old, new, 1)
RECURSIVE ReplaceFirst(_, _, _)
ReplaceFirst(str, old, new) ==
    IF str = <<>> \/ old = <<>> THEN str
    ELSE IF HasPrefix(str, old) THEN new \o SubSeq(str, Len(old) + 1, Len(str))
    ELSE <<Head(str)>> \o ReplaceFirst(Tail(str), old, new)

\* pipeline.Status.PublicDockerImageRepository
PublicDockerImageRepository == <<"registry.public", "/", "ci-op", "/", "pipeline">>

\* Items[0].DockerImageReference of a tag of the pipeline stream's status.
PipelineImageReference(tag) ==
    <<"docker-registry.default.svc", ":5000", "/", "ci-op", "/", "pipeline", "@">> \o tag

\* findDockerImageReference, lines 311-322; <<>> is the empty string.
findDockerImageReference(pipe, tag) ==
    IF tag \in pipe THEN PipelineImageReference(tag) ELSE <<>>

\* getPublicImageReference, lines 242-260.
getPublicImageReference(dockerImageReference, publicDockerImageRepository) ==
    IF ~Contains(dockerImageReference, <<":5000">>) THEN dockerImageReference
    ELSE LET publicSplits == Split(publicDockerImageRepository, "/")
             splits == Split(dockerImageReference, "/")
         IN  IF Len(publicSplits) < 2 THEN dockerImageReference
             ELSE IF Len(splits) < 2 THEN dockerImageReference
             ELSE ReplaceFirst(dockerImageReference, splits[1], publicSplits[1])

\* The target getImageMirrorTarget writes for a destination, lines 205 and 217.
MirrorTarget(cfg, dst) ==
    IF Len(cfg.Name) > 0
      THEN DomainForServiceRegistry \o <<"/">> \o ConfigNamespace \o <<"/">> \o cfg.Name
               \o <<":">> \o dst
      ELSE DomainForServiceRegistry \o <<"/">> \o ConfigNamespace \o <<"/">> \o dst
               \o <<":">> \o cfg.Tag

\* getImageMirrorTarget, lines 193-227: the map after the range loop has
\* visited the destinations in the given order; the map is keyed by the
\* public reference of the source image.
RECURSIVE MirrorLoop(_, _, _, _, _)
MirrorLoop(order, cfg, tagsByDst, pipe, imageMirrorAcc) ==
    IF order = <<>> THEN imageMirrorAcc
    ELSE LET dst == Head(order)
             dockerImageReference == findDockerImageReference(pipe, tagsByDst[dst])
         IN  IF dockerImageReference = <<>>
               THEN MirrorLoop(Tail(order), cfg, tagsByDst, pipe, imageMirrorAcc)
               ELSE MirrorLoop(Tail(order), cfg, tagsByDst, pipe,
                        MapPut(imageMirrorAcc,
                               getPublicImageReference(dockerImageReference,
                                                       PublicDockerImageRepository),
                               MirrorTarget(cfg, dst)))

getImageMirrorTarget(cfg, tagsByDst, pipe, order) ==
    MirrorLoop(order, cfg, tagsByDst, pipe, EmptyMap)

\* The image streams createIfNotFound is called for, lines 206 and 218.
EnsuredStreams(cfg, tagsByDst, pipe) ==
    { IF Len(cfg.Name) > 0 THEN cfg.Name ELSE dst :
        dst \in { d \in DOMAIN tagsByDst : tagsByDst[d] \in pipe } }

\* The tokens of the strings that are sorted, in the order of their bytes.
Alphabet ==
    <<"/", ":5000", "@", "a", "b", "c", "ci-op", "docker-registry.default.svc", "n", "p",
      "pipeline", "registry.public", "s", "t">>

Rank(token) == CHOOSE i \in DOMAIN Alphabet : Alphabet[i] = token

\* The comparison of strings that sort.Strings uses.
RECURSIVE StringLess(_, _)
StringLess(x, y) ==
    IF y = <<>> THEN FALSE
    ELSE IF x = <<>> THEN TRUE
    ELSE IF Head(x) = Head(y) THEN StringLess(Tail(x), Tail(y))
    ELSE Rank(Head(x)) < Rank(Head(y))

\* The sorted slice with one more string put in its place.
RECURSIVE InsertString(_, _)
InsertString(k, sorted) ==
    IF sorted = <<>> THEN <<k>>
    ELSE IF StringLess(k, Head(sorted)) THEN <<k>> \o sorted
    ELSE <<Head(sorted)>> \o InsertString(k, Tail(sorted))

\* The keys as the range loop collected them.
SortStrings_Unsorted(keys) == keys

\* sort.Strings, line 267.
RECURSIVE SortStrings(_)
SortStrings(keys) ==
    IF keys = <<>> THEN <<>> ELSE InsertString(Head(keys), SortStrings(Tail(keys)))

\* strings.Join
RECURSIVE Join(_, _)
Join(strs, sep) ==
    IF strs = <<>> THEN <<>>
    ELSE IF Len(strs) = 1 THEN strs[1]
    ELSE strs[1] \o sep \o Join(Tail(strs), sep)

\* The mirror command of line 271.
MirrorCommand(k, target) ==
    <<"oc image mirror --registry-config=", "/etc/push-secret", "/", ".dockerconfigjson", " ">>
        \o k \o <<" ">> \o target

\* jobSpec.Namespace()
JobNamespace == <<"ci-op">>

\* getPromotionPod, lines 262-307; order is the order in which the range
\* loop of line 265 visits the keys.
getPromotionPod(imageMirrorTarget, namespace, order) ==
    LET keys == SortStrings(order)
        ocCommands == [i \in 1..Len(keys) |-> MirrorCommand(keys[i], imageMirrorTarget[keys[i]])]
    IN  [Name |-> <<"promotion">>,
         Namespace |-> namespace,
         RestartPolicy |-> "Never",
         Containers |-> << [Name |-> <<"promotion">>,
                            Image |-> DomainForServiceRegistry \o <<"/", "ocp", "/", "4.6", ":", "cli">>,
                            Command |-> <<"/bin/sh", "-c">>,
                            Args |-> << Join(ocCommands, <<" && ">>) >>,
                            VolumeMounts |-> << [Name |-> "push-secret",
                                                 MountPath |-> "/etc/push-secret",
                                                 ReadOnly |-> TRUE] >>] >>]

\* The configurations the helper functions are called with.
InitHelpers ==
    /\ LockIdle /\ RecIdle /\ PlanIdle
    /\ filterSets = NoFilterSets
    /\ nn = [Namespace |-> "", Name |-> <<>>]
    /\ fpc = "off"
    /\ admitted = FALSE
    /\ enqueued = <<>>
    /\ \E disabled \in BOOLEAN, name \in {<<>>, <<"n">>}, additional \in AdditionalMaps :
          config = PromotionConfig(disabled, name, <<>>, <<>>, additional)
    /\ images \in ImageLists
    /\ requiredImages \in SUBSET {<<"a">>}
    /\ pushSecret = TRUE
    /\ imageCreatorClient = TRUE
    /\ pipeline \in SUBSET TagNames
    /\ dstStreams = {}
    /\ dstSpecTags = <<>>
    /\ dstImageTags = {}
    /\ ppc = "off"
    /\ promTags = <<>>
    /\ promNames = {}
    /\ ptodo = {}
    /\ pcur = <<>>
    /\ attempts = 0
    /\ lastErr = ""
    /\ pcalls = <<>>
    /\ presult = ""
    /\ hasPromotion \in BOOLEAN
    /\ hcalled = {}
    /\ promotedTags = <<>>
    /\ imageMirror = <<>>
    /\ pod = NoPod

\* A call of PromotedTags with the configuration.
CallPromotedTags ==
    /\ "PromotedTags" \notin hcalled
    /\ \E order \in Orders(DOMAIN toPromote(config, images, {}).tagsByDst) :
          promotedTags' = PromotedTags(hasPromotion, config, images, order)
    /\ hcalled' = hcalled \cup {"PromotedTags"}
    /\ UNCHANGED <<lockVars, recVars, promVars, planVars, filterVars, hasPromotion,
                   imageMirror, pod>>

\* A call of getImageMirrorTarget with a client, the step's tag mapping
\* and the pipeline stream; createIfNotFound leaves every stream it is
\* called for in existence.
CallGetImageMirrorTarget ==
    /\ "getImageMirrorTarget" \notin hcalled
    /\ LET tagsByDst == toPromote(config, images, requiredImages).tagsByDst IN
       /\ \E order \in Orders(DOMAIN tagsByDst) :
             imageMirror' = getImageMirrorTarget(config, tagsByDst, pipeline, order)
       /\ dstStreams' = dstStreams \cup EnsuredStreams(config, tagsByDst, pipeline)
    /\ hcalled' = hcalled \cup {"getImageMirrorTarget"}
    /\ UNCHANGED <<lockVars, recVars, planVars, filterVars, hasPromotion, promotedTags, pod,
                   config, images, requiredImages, pushSecret, imageCreatorClient, pipeline,
                   dstSpecTags, dstImageTags, ppc, promTags, promNames, ptodo, pcur,
                   attempts, lastErr, pcalls, presult>>

\* A call of getPromotionPod with the mirror mapping, made as run makes it:
\* for a mapping that is not empty (lines 102-108).
CallGetPromotionPod ==
    /\ "getImageMirrorTarget" \in hcalled
    /\ "getPromotionPod" \notin hcalled
    /\ DOMAIN imageMirror # {}
    /\ \E order \in Orders(DOMAIN imageMirror) :
          pod' = getPromotionPod(imageMirror, JobNamespace, order)
    /\ hcalled' = hcalled \cup {"getPromotionPod"}
    /\ UNCHANGED <<lockVars, recVars, promVars, planVars, filterVars, hasPromotion,
                   promotedTags, imageMirror>>

NextHelpers ==
    \/ CallPromotedTags
    \/ CallGetImageMirrorTarget
    \/ CallGetPromotionPod

SpecHelpers == InitHelpers /\ [][NextHelpers]_vars

----------------------------------------------------------------------------
(* Claims about the promotion step *)

\* The tag mapping as the derivation describes it.
DerivedMapping(cfg, imgs, required) ==
    IF cfg.Disabled THEN EmptyMap
    ELSE LET included == { imgs[i].To : i \in { j \in DOMAIN imgs :
                                 imgs[j].To \in required \/ ~imgs[j].Optional } }
             excluded == { cfg.ExcludedImages[i] : i \in DOMAIN cfg.ExcludedImages }
             additional == cfg.AdditionalImages
             m == [d \in (included \ excluded) \cup DOMAIN additional |->
                      IF d \in DOMAIN additional THEN additional[d] ELSE d]
         IN IF cfg.NamePrefix = <<>> THEN m
            ELSE [k \in { cfg.NamePrefix \o d : d \in DOMAIN m } |->
                     m[SubSeq(k, Len(cfg.NamePrefix) + 1, Len(k))]]

\* C6: toPromote returns the empty mapping when Disabled is set and
\* otherwise the mapping of the included images, minus the excluded ones,
\* plus the additional ones, with prefixed destinations when NamePrefix is
\* set; the returned names are the keys of the returned mapping.
C6_ToPromote ==
    ppc # "start" =>
        /\ promTags = DerivedMapping(config, images, requiredImages)
        /\ promNames = DOMAIN promTags

C6_Witness ==
    /\ ppc # "start"
    /\ ~config.Disabled
    /\ config.NamePrefix # <<>>
    /\ \E i \in DOMAIN images, j \in DOMAIN config.ExcludedImages :
          /\ ~images[i].Optional
          /\ images[i].To = config.ExcludedImages[j]
          /\ images[i].To \notin DOMAIN config.AdditionalImages
    /\ \E i \in DOMAIN images : images[i].Optional /\ images[i].To \in requiredImages
    /\ DOMAIN config.AdditionalImages # {}
    /\ promNames # {}

\* The run went past the Get of the pipeline stream on the push-secret path.
OnPushSecretPath ==
    /\ ppc = "done"
    /\ pushSecret
    /\ promNames # {}
    /\ presult # "could not resolve pipeline imagestream"

HasPCall(call) == \E i \in DOMAIN pcalls : pcalls[i] = call

\* C7: with a push secret, an image-creator client and a source tag of the
\* mapping present in the pipeline status, the step ensures the destination
\* namespace, runs exactly one promotion pod and ends successfully.
C7_PushSecretRunsOnePod ==
    (OnPushSecretPath /\ imageCreatorClient
        /\ \E dst \in DOMAIN promTags : promTags[dst] \in pipeline)
        => /\ presult = "ok"
           /\ HasPCall(PCall("get", "Namespace", ConfigNamespace))
           /\ Cardinality({ i \in DOMAIN pcalls : pcalls[i][2] = "Pod" }) = 1

\* C8: on the push-secret path a nil image-creator client ends the step
\* with the error "image-creator client is nil".
C8_NilClientIsAnError ==
    (OnPushSecretPath /\ ~imageCreatorClient) => presult = "image-creator client is nil"

\* C9: a destination write of the in-cluster path is attempted again only
\* after a conflict and at most Steps times; Steps conflicts end the step
\* with the conflict error, any other error ends it at once.
C9_RetryOnlyOnConflict ==
    /\ attempts <= Steps
    /\ (ppc \in {"name", "tagRetry"} /\ attempts > 0) => lastErr = "conflict"
    /\ (lastErr = "conflict" /\ attempts = Steps) => (ppc = "done" /\ presult = "conflict")
    /\ lastErr \notin {"", "ok", "conflict"} => (ppc = "done" /\ presult = lastErr)

C9_Witness ==
    /\ ppc = "done"
    /\ attempts = Steps
    /\ presult = "conflict"
    /\ Len(config.Name) = 0
    /\ dstImageTags # {}

----------------------------------------------------------------------------
(* The planner: FromConfig's loop over the raw steps (defaults) *)

ParamNames == {"IMAGE_A", "IMAGE_B"}

Links == {"stable:a", "stable:b"}

\* A raw step as far as the loop looks at it: whether it is a resolved
\* release (isReleaseStep), an output image tag that is required or not
\* optional (its Creates are its stepLinks), or any other step; what the
\* constructed step provides and creates.
StepKinds == {"ResolvedReleaseImages", "OutputImageTag", "Other"}

RawStepConfigs == [kind : StepKinds, provides : SUBSET ParamNames, creates : { {l} : l \in Links }]

RawStepLists == UNION { [1..k -> RawStepConfigs] : k \in 1..MaxRawSteps }

InitPlan ==
    /\ LockIdle /\ RecIdle /\ PromIdle /\ AuxIdle
    /\ rawSteps \in RawStepLists
    /\ env \in SUBSET ParamNames
    /\ plpc = "loop"
    /\ nextRaw = 1
    /\ buildSteps = <<>>
    /\ paramValues = {}
    /\ paramFns = {"JOB_NAME", "JOB_NAME_HASH", "JOB_NAME_SAFE", "NAMESPACE"}
    /\ imageStepLinks = {}
    /\ promote \in BOOLEAN
    /\ promotionConfiguration \in BOOLEAN
    /\ postSteps = <<>>
    /\ planErr = ""

\* The step constructed for the raw step at index i.
ConstructedStep(i) ==
    [kind |-> "step", raw |-> i, provides |-> rawSteps[i].provides,
     creates |-> rawSteps[i].creates, links |-> {}]

\* steps.NewInputEnvironmentStep(step.Name(), values, step.Creates())
NewInputEnvironmentStep(step, values) ==
    [kind |-> "InputEnvironment", raw |-> step.raw, provides |-> values,
     creates |-> step.creates, links |-> {}]

\* lines 595-614: the values of the provided parameters when there is at
\* least one and all of them are inputs of the environment.
paramsHasAllParametersAsInput(environment, params) ==
    IF params = {} THEN [values |-> {}, ok |-> FALSE]
    ELSE IF \E k \in params : k \notin environment THEN [values |-> {}, ok |-> FALSE]
    ELSE [values |-> params, ok |-> TRUE]

\* lines 352-366: the step it returns, whether it replaced the step, and
\* the parameters after params.Set or params.Add.
checkForFullyQualifiedStep(step, environment, values, fns) ==
    LET has == paramsHasAllParametersAsInput(environment, step.provides) IN
    IF has.ok
      THEN [step |-> NewInputEnvironmentStep(step, has.values), ok |-> TRUE,
            values |-> values \cup has.values, fns |-> fns]
      ELSE [step |-> step, ok |-> FALSE, values |-> values, fns |-> fns \cup step.provides]

isReleaseStep_Never(rawStep) == FALSE

\* lines 208-215: only the ResolvedReleaseImages branch sets isReleaseStep.
isReleaseStep(rawStep) == rawStep.kind = "ResolvedReleaseImages"

\* lines 152-288: one iteration of the loop. The step and ok that
\* checkForFullyQualifiedStep returns are declared inside the if block
\* (line 278, :=); line 285 appends the step of the enclosing scope.
PlanStep ==
    /\ plpc = "loop"
    /\ nextRaw <= Len(rawSteps)
    /\ LET rawStep == rawSteps[nextRaw]
           step == ConstructedStep(nextRaw)
           stepLinks == IF rawStep.kind = "OutputImageTag" THEN step.creates ELSE {}
           inner == checkForFullyQualifiedStep(step, env, paramValues, paramFns)
       IN /\ IF isReleaseStep(rawStep)
               THEN UNCHANGED <<paramValues, paramFns, imageStepLinks>>
               ELSE /\ paramValues' = inner.values
                    /\ paramFns' = inner.fns
                    /\ imageStepLinks' = IF inner.ok THEN imageStepLinks
                                         ELSE imageStepLinks \cup stepLinks
          /\ buildSteps' = Append(buildSteps, step)
    /\ nextRaw' = nextRaw + 1
    /\ plpc' = IF nextRaw = Len(rawSteps) THEN "finish" ELSE "loop"
    /\ UNCHANGED <<auxVars, lockVars, recVars, promVars, rawSteps, env, promote, promotionConfiguration,
                   postSteps, planErr>>

StableImagesTagStep ==
    [kind |-> "StableImagesTag", raw |-> 0, provides |-> {}, creates |-> {}, links |-> {}]

ImagesReadyStep(links) ==
    [kind |-> "ImagesReady", raw |-> 0, provides |-> {}, creates |-> {}, links |-> links]

PromotionStepOfPlan ==
    [kind |-> "Promotion", raw |-> 0, provides |-> {}, creates |-> {}, links |-> {}]

\* promotionDefaults with the nil check left out.
promotionDefaults_NoCheck(present) == [ok |-> TRUE]

\* lines 368-374: no PromotionConfiguration is an error.
promotionDefaults(present) == [ok |-> present]

\* lines 315-339, without a paramFile: the steps appended after the loops,
\* the provides of every step added to the parameters, the promotion step
\* put into postSteps when promote is set, and what FromConfig returns.
PlanFinish ==
    /\ plpc = "finish"
    /\ LET hasReleaseStep == \E i \in DOMAIN rawSteps : rawSteps[i].kind = "ResolvedReleaseImages"
           all == buildSteps \o (IF hasReleaseStep THEN <<>> ELSE <<StableImagesTagStep>>)
                     \o <<ImagesReadyStep(imageStepLinks)>>
           cfg == promotionDefaults(promotionConfiguration)
       IN /\ paramFns' = paramFns \cup UNION { all[i].provides : i \in DOMAIN all }
          /\ IF promote /\ ~cfg.ok
               THEN \* return nil, nil, err
                    /\ buildSteps' = <<>>
                    /\ postSteps' = <<>>
                    /\ planErr' = "could not determine promotion defaults"
               ELSE /\ buildSteps' = all
                    /\ postSteps' = IF promote THEN Append(postSteps, PromotionStepOfPlan)
                                    ELSE postSteps
                    /\ planErr' = ""
    /\ plpc' = "done"
    /\ UNCHANGED <<auxVars, lockVars, recVars, promVars, rawSteps, env, nextRaw, paramValues, imageStepLinks,
                   promote, promotionConfiguration>>

NextPlan ==
    \/ PlanStep
    \/ PlanFinish

SpecPlan == InitPlan /\ [][NextPlan]_vars

\* The run went past the Get of the pipeline stream and no source tag of
\* the mapping is in the pipeline's status.
NoSourceTagPresent ==
    /\ ppc = "done"
    /\ promNames # {}
    /\ presult # "could not resolve pipeline imagestream"
    /\ \A dst \in DOMAIN promTags : promTags[dst] \notin pipeline

\* C12: when no source tag of the mapping is in the pipeline's status the
\* step ends successfully and has issued no call besides the Get of the
\* pipeline stream: no destination object is created or updated and no pod
\* is run, on the push-secret path and on both in-cluster paths.
C12_NothingPresentIsANoOp ==
    NoSourceTagPresent =>
        /\ presult = "ok"
        /\ pcalls = <<PCall("get", "src.ImageStream", <<"pipeline">>)>>
        /\ dstSpecTags = <<>>
        /\ dstImageTags = {}

ExcludedNames == { config.ExcludedImages[i] : i \in DOMAIN config.ExcludedImages }

\* The image name is a destination of the mapping, under the prefix if any.
IsDestination(name) == (config.NamePrefix \o name) \in DOMAIN promTags

C14_OptionalIffRequired ==
    ppc # "start" =>
        \A i \in DOMAIN images :
            images[i].Optional => (IsDestination(images[i].To) <=> images[i].To \in requiredImages)

\* The name of the optional image at index i is not excluded, is not a
\* destination of AdditionalImages and is not the name of an image that is
\* not optional.
OnlyOptional(i) ==
    /\ images[i].Optional
    /\ images[i].To \notin ExcludedNames
    /\ images[i].To \notin DOMAIN config.AdditionalImages
    /\ \A j \in DOMAIN images : images[j].To = images[i].To => images[j].Optional

\* C14, amended: when promotion is not disabled, an optional image whose
\* name is not excluded, not an additional destination and not also the name
\* of a non-optional image is a destination if and only if it is required.
C14_OptionalIffRequiredAmongIncluded ==
    (ppc # "start" /\ ~config.Disabled) =>
        \A i \in DOMAIN images :
            OnlyOptional(i) => (IsDestination(images[i].To) <=> images[i].To \in requiredImages)

C14_Witness ==
    /\ ppc # "start"
    /\ ~config.Disabled
    /\ \E i, j \in DOMAIN images :
          /\ OnlyOptional(i) /\ images[i].To \in requiredImages /\ IsDestination(images[i].To)
          /\ OnlyOptional(j) /\ images[j].To \notin requiredImages /\ ~IsDestination(images[j].To)

\* The calls a step adds to the log.
NewPCalls == SubSeq(pcalls', Len(pcalls) + 1, Len(pcalls'))

\* The destination stream an attempt of an in-cluster path works on.
AttemptDestination == IF ppc = "name" THEN config.Name ELSE pcur

EnsureErrors == {"could not ensure target imagestream", "could not retrieve target imagestream"}

\* An attempt that finds the missing destination stream not-found creates
\* it; one that issues no Create for a missing stream had its Get fail
\* otherwise.
C19_Attempt ==
    ppc \in {"name", "tagRetry"} =>
        LET created == \E i \in DOMAIN NewPCalls : NewPCalls[i][1] = "create"
            updated == \E i \in DOMAIN NewPCalls : NewPCalls[i][1] = "update"
        IN  /\ (NewPCalls # <<>> /\ AttemptDestination \notin dstStreams /\ ~created) =>
                  /\ ~updated
                  /\ ppc' = "done"
                  /\ presult' \in EnsureErrors
            /\ (created /\ AttemptDestination \in dstStreams') => lastErr' \notin EnsureErrors

\* C19: an attempt whose Get of the destination stream fails with an error
\* other than not-found issues no Create and no Update and ends the step
\* with that error; a not-found Get followed by a successful Create is not
\* an error.
C19_GetFailureEndsStep == [][C19_Attempt]_vars

\* C20 as stated: with Disabled set the step ends with an error and has
\* made no call.
C20_DisabledFailsFast ==
    (ppc = "done" /\ config.Disabled) => (presult # "ok" /\ pcalls = <<>>)

\* C20, amended: with Disabled set the step ends at once with success,
\* having made no call and written nothing to the destination.
C20_DisabledSkips ==
    config.Disabled =>
        /\ ppc \in {"start", "done"}
        /\ pcalls = <<>>
        /\ dstSpecTags = <<>>
        /\ dstImageTags = {}
        /\ ppc = "done" => (presult = "ok" /\ promNames = {})

C20_Witness ==
    /\ ppc = "done"
    /\ config.Disabled
    /\ presult = "ok"
    /\ pcalls = <<>>
    /\ images # <<>>
    /\ pipeline # {}

----------------------------------------------------------------------------
(* Claims about the planner *)

\* All the parameters the raw step at index i provides, and there is one,
\* are inputs of the environment, and the step is not a release step.
FullyQualified(i) ==
    /\ rawSteps[i].kind # "ResolvedReleaseImages"
    /\ rawSteps[i].provides # {}
    /\ rawSteps[i].provides \subseteq env

\* C10: in the returned step list a fully qualified non-release step is
\* replaced by an InputEnvironment shim with the same Creates, its values
\* are in the parameters and its links are not among the images-ready
\* links; every other step is in the list unchanged.
C10_ShimReplacesStep ==
    (plpc = "done" /\ planErr = "") =>
        /\ \A i \in DOMAIN rawSteps :
              IF FullyQualified(i)
                THEN /\ buildSteps[i].kind = "InputEnvironment"
                     /\ buildSteps[i].creates = rawSteps[i].creates
                     /\ rawSteps[i].provides \subseteq paramValues
                ELSE buildSteps[i] = ConstructedStep(i)
        /\ imageStepLinks = UNION { rawSteps[i].creates : i \in { j \in DOMAIN rawSteps :
                                        rawSteps[j].kind = "OutputImageTag" /\ ~FullyQualified(j) } }

\* C11: a promotion step is in the returned post steps exactly when promote
\* is set and a PromotionConfiguration exists, and never among the build
\* steps; promote without a PromotionConfiguration returns an error and no
\* steps.
C11_PromotionIsAPostStep ==
    plpc = "done" =>
        /\ \A i \in DOMAIN buildSteps : buildSteps[i].kind # "Promotion"
        /\ (promote /\ promotionConfiguration) => (planErr = "" /\ postSteps = <<PromotionStepOfPlan>>)
        /\ ~promote => (planErr = "" /\ postSteps = <<>> /\ buildSteps # <<>>)
        /\ (promote /\ ~promotionConfiguration) =>
              (planErr # "" /\ postSteps = <<>> /\ buildSteps = <<>>)

C11_Witness ==
    /\ plpc = "done"
    /\ promote
    /\ promotionConfiguration
    /\ postSteps = <<PromotionStepOfPlan>>
    /\ Len(buildSteps) > Len(rawSteps)

\* The raw step at index i is a resolved release.
ResolvedRelease(i) == rawSteps[i].kind = "ResolvedReleaseImages"

C18_State ==
    (plpc = "done" /\ planErr = "") =>
        \A i \in DOMAIN rawSteps :
            ResolvedRelease(i) =>
                /\ buildSteps[i] = ConstructedStep(i)
                /\ buildSteps[i].kind # "InputEnvironment"

C18_Iteration ==
    (plpc = "loop" /\ nextRaw <= Len(rawSteps) /\ ResolvedRelease(nextRaw)) =>
        /\ buildSteps' = Append(buildSteps, ConstructedStep(nextRaw))
        /\ paramValues' = paramValues

\* C18: a resolved-release step is in the returned list as the step that
\* was constructed for it, and its iteration builds no environment shim:
\* it appends that step and sets no parameter from the environment, also
\* when every parameter the step provides is an environment input.
C18_ReleaseStepStays == []C18_State /\ [][C18_Iteration]_vars

C18_Witness ==
    /\ plpc = "done"
    /\ planErr = ""
    /\ \E i \in DOMAIN rawSteps :
          /\ ResolvedRelease(i)
          /\ rawSteps[i].provides # {}
          /\ rawSteps[i].provides \subseteq env
          /\ buildSteps[i] = ConstructedStep(i)
          /\ rawSteps[i].provides \cap paramValues = {}

----------------------------------------------------------------------------
(* Claims about reconcile *)

Returned(res) == rpc = "done" /\ result = res

SourceSelected == srcClusterName # ""

SourceTag == isTags[srcClusterName]

HasCall(call) == \E i \in DOMAIN calls : calls[i] = call

\* C2: after a reconcile in non-read-only mode returns success with a source
\* stream that is not being deleted, every non-source cluster holds for the
\* tag the same image as the source, except the clusters skipped because the
\* source tag originated in them.
C2_AllClustersSynced ==
    (Returned("ok") /\ ~readOnly /\ SourceSelected /\ srcStream.exists /\ ~srcStream.del)
        => \A c \in Clusters \ {srcClusterName} :
              \/ dockerImageImportedFromTargetingCluster(c, SourceTag)
              \/ tags[c].exists /\ tags[c].img = SourceTag.img

\* C3: the selection step picks, among the clusters that hold the tag, one
\* whose image has the latest creation time (a holder older than another
\* holder is never picked, and then some holder is picked); without any
\* holder reconcile returns success and issues no call; a reconcile that has
\* returned does nothing more.
C3_Selects ==
    LET H == Holders(isTags) IN
    rpc = "select" =>
        /\ H = {} => /\ rpc' = "done" /\ result' = "ok" /\ srcClusterName' = ""
                     /\ calls' = <<>>
                     /\ UNCHANGED <<nsExists, streams, tags>>
        /\ \A a, b \in H : isTags[a].ts < isTags[b].ts => srcClusterName' \notin {a, ""}
        /\ srcClusterName' # "" =>
              /\ srcClusterName' \in H
              /\ \A c \in H : isTags[c].ts <= isTags[srcClusterName'].ts

Finalizing == SourceSelected /\ srcStream.exists /\ srcStream.del /\ srcStream.fin

RemoveFinalizerCall(c) == Call("patch-remove-finalizer", c, "ImageStream")

DeleteCall(c) == Call("delete", c, "ImageStream")

C4_State ==
    Finalizing =>
        \* no ensure step and no import runs
        /\ \A i \in DOMAIN calls :
              /\ calls[i][1] \in {"get", "patch-remove-finalizer", "delete"}
              /\ calls[i][3] = "ImageStream"
        \* the source loses its finalizer only in the call that ends a
        \* successful reconcile
        /\ \A i \in DOMAIN calls :
              calls[i] = RemoveFinalizerCall(srcClusterName) => i = Len(calls) /\ rpc = "done"
        /\ ~streams[srcClusterName].fin => Returned("ok")
        /\ Returned("ok") =>
              /\ ~streams[srcClusterName].fin
              /\ \A c \in Clusters \ {srcClusterName} :
                    /\ HasCall(Call("get", c, "ImageStream"))
                    /\ ~streams[c].fin
        /\ Returned("error") => streams[srcClusterName].fin

\* One iteration of the finalizing loop that did not fail, for a cluster
\* that has the stream: the finalizer is removed and the stream deleted.
C4_Iteration ==
    (Finalizing /\ rpc = "finalize" /\ rpc' = "finalize" /\ todo' # todo) =>
        \A c \in todo \ todo' :
            streams[c].exists =>
                /\ ~streams'[c].fin
                /\ streams[c].fin => calls'[Len(calls') - 1] = RemoveFinalizerCall(c)
                /\ calls'[Len(calls')] = DeleteCall(c)
                /\ Len(calls') > Len(calls)
                /\ streams'[c].exists => streams[c].del

\* C4: with a source stream that is being deleted and carries the sync
\* finalizer, reconcile removes the finalizer from and deletes the stream on
\* every non-source cluster that has it, removes the source's finalizer last
\* and only when all of that succeeded, and runs no ensure step or import.
C4_FinalizeOrder == []C4_State /\ [][C4_Iteration]_vars

C4_Witness ==
    /\ Finalizing
    /\ Returned("ok")
    /\ ~streams[srcClusterName].fin
    /\ \E c \in Clusters \ {srcClusterName} :
          HasCall(RemoveFinalizerCall(c)) /\ HasCall(DeleteCall(c))

\* The pull spec of image img of the request's stream on the public
\* registry host of cluster c.
PublicPullSpec(c, img) ==
    (IF c = "api.ci" THEN <<"registry.svc.ci.openshift.org">> ELSE <<"registry.ci.openshift.org">>)
        \o <<"/", ControllerNamespace, "/", ImageStreamName, "@", img>>

IsImport(call) == call[1] = "import"

C15_State ==
    \A i \in DOMAIN calls :
        IsImport(calls[i]) =>
            LET y == calls[i][2] IN
            /\ y # srcClusterName
            /\ calls[i] = ImportCall(y, PublicPullSpec(srcClusterName, SourceTag.img), ImageTag, "Local")
            /\ \E j \in 1..(i - 1) : calls[j] = Call("get", y, "Namespace")
            /\ \E j \in 1..(i - 1) : calls[j] = Call("upsert", y, "ImageStream")
            /\ nsExists[y]
            /\ streams[y].exists

\* The iteration that submits an import to a cluster without the namespace
\* creates the namespace first.
C15_Creates ==
    \A y \in Clusters :
        (/\ ~nsExists[y]
         /\ \E i \in DOMAIN calls' : i > Len(calls) /\ IsImport(calls'[i]) /\ calls'[i][2] = y)
            => \E j, i \in (Len(calls) + 1)..Len(calls') :
                  /\ j < i
                  /\ calls'[j] = Call("create", y, "Namespace")
                  /\ IsImport(calls'[i])

\* C15: an import is submitted to a cluster only after its namespace and
\* image stream were ensured (the namespace created when missing); it names
\* the requested tag as target, uses the Local reference policy and takes as
\* source the source tag's pull spec on the source's public registry host.
C15_EnsureThenImport == []C15_State /\ [][C15_Creates]_vars

C15_Witness ==
    /\ Returned("ok")
    /\ \E y \in Clusters \ {srcClusterName} :
          /\ ~isTags[y].exists
          /\ HasCall(Call("create", y, "Namespace"))
          /\ HasCall(ImportCall(y, PublicPullSpec(srcClusterName, SourceTag.img), ImageTag, "Local"))
          /\ tags[y].exists /\ tags[y].img = SourceTag.img

\* Cluster c is not the source, the source tag did not originate in it and
\* it did not hold the source image when the tags were gathered.
LacksSourceImage(c) ==
    /\ c # srcClusterName
    /\ ~dockerImageImportedFromTargetingCluster(c, SourceTag)
    /\ ~(isTags[c].exists /\ isTags[c].img = SourceTag.img)

\* C16: a read-only reconcile submits no import, and when it returns
\* success for a source that is not being deleted it has ensured the
\* namespace, the image stream and the pull secret on every non-source
\* cluster that lacks the source image.
C16_ReadOnlyEnsuresEverywhere ==
    readOnly =>
        /\ \A i \in DOMAIN calls : ~IsImport(calls[i])
        /\ (Returned("ok") /\ SourceSelected /\ srcStream.exists /\ ~srcStream.del) =>
              \A c \in Clusters :
                  LacksSourceImage(c) =>
                      /\ HasCall(Call("get", c, "Namespace"))
                      /\ HasCall(Call("upsert", c, "ImageStream"))
                      /\ HasCall(Call("upsert", c, "Secret"))
                      /\ nsExists[c]
                      /\ streams[c].exists

\* The ensure, import and metric calls of the sync loop made on cluster c.
SyncCallsOn(c) ==
    { i \in DOMAIN calls :
        calls[i][2] = c /\ calls[i][1] \in {"create", "upsert", "import", "count"} }

\* The source tag's origin lies in the registry of target cluster c.
OriginatedIn(c) ==
    /\ SourceSelected
    /\ c # srcClusterName
    /\ SourceTag.from # NoFrom
    /\ \E d \in {ServiceDomainAPICIRegistry, ServiceDomainAPPCIRegistry} :
          /\ HasPrefix(SourceTag.from, d)
          /\ d = (IF c = "api.ci" THEN ServiceDomainAPICIRegistry
                  ELSE IF c = "app.ci" THEN ServiceDomainAPPCIRegistry
                  ELSE <<>>)

C17_State ==
    \A c \in Clusters : OriginatedIn(c) => SyncCallsOn(c) = {}

C17_Untouched ==
    \A c \in Clusters :
        (rpc = "sync" /\ OriginatedIn(c)) =>
            /\ nsExists'[c] = nsExists[c]
            /\ streams'[c] = streams[c]
            /\ tags'[c] = tags[c]

\* C17: a target cluster whose registry the source tag points into
\* receives no import, and the sync loop writes no namespace, stream or
\* secret on it.
C17_OriginSkipped == []C17_State /\ [][C17_Untouched]_vars

C17_Witness ==
    /\ Returned("ok")
    /\ \E c \in Clusters :
          /\ OriginatedIn(c)
          /\ ~(tags[c].exists /\ tags[c].img = SourceTag.img)
          /\ \A i \in DOMAIN calls : calls[i][2] # c
          /\ \E y \in Clusters \ {c, srcClusterName} :
                HasCall(ImportCall(y, PublicPullSpec(srcClusterName, SourceTag.img),
                                   ImageTag, "Local"))

IsCount(call) == call[1] = "count"

HoldsSourceImage(c) == tags[c].exists /\ tags[c].img = SourceTag.img

\* C21: every submitted import is followed at once by the count of its
\* result for the same cluster, and every count follows an import; the
\* outcome is true only when the import produced the image on the cluster,
\* and an import that produced none is counted false and ends the
\* reconcile with an error.
C21_ImportCounted ==
    /\ \A i \in DOMAIN calls :
          IsImport(calls[i]) =>
              /\ i < Len(calls)
              /\ IsCount(calls[i + 1])
              /\ calls[i + 1][2] = calls[i][2]
              /\ calls[i + 1][3] = "true" => HoldsSourceImage(calls[i][2])
              /\ ~HoldsSourceImage(calls[i][2]) =>
                    /\ calls[i + 1] = CountImportResult(calls[i][2], "false")
                    /\ i + 1 = Len(calls)
                    /\ Returned("error")
    /\ \A i \in DOMAIN calls :
          IsCount(calls[i]) =>
              /\ i > 1
              /\ IsImport(calls[i - 1])
              /\ calls[i][3] = "false" => (i = Len(calls) /\ Returned("error"))

C21_Witness ==
    /\ Returned("error")
    /\ \E y, z \in Clusters \ {srcClusterName} :
          /\ y # z
          /\ HasCall(CountImportResult(y, "true"))
          /\ HoldsSourceImage(y)
          /\ calls[Len(calls)] = CountImportResult(z, "false")
          /\ ~HoldsSourceImage(z)

\* C27: whenever at least one cluster holds the requested tag, the selection
\* step has picked a source among the holders, whatever the creation times
\* of the images are, the zero time included: the selected name is a holder
\* (so it is not empty, and reconcile has not taken the no-tag exit).
C27_SourceAmongHolders ==
    (rpc \notin {"off", "gather", "select"} /\ Holders(isTags) # {})
        => srcClusterName \in Holders(isTags)

\* C28: under repeated reconciles, none of which fails from some time on,
\* a stream that carries the sync finalizer and a deletion timestamp
\* eventually has the finalizer removed, on whichever cluster it lives.
C28_FinalizerRemoved ==
    \A c \in Clusters :
        <>[](result # "error")
            => ((streams[c].exists /\ streams[c].del /\ streams[c].fin) ~> ~streams[c].fin)

----------------------------------------------------------------------------
(* Claims about the event filter *)

\* The request's name has the form name:tag.
WellFormed == Len(Split(nn.Name, ":")) = 2

\* The namespaced name of the request's stream.
StreamOfRequest == NamespacedString(nn.Namespace, Split(nn.Name, ":")[1])

Denied == StreamOfRequest \in filterSets.deniedImageStreams

InclusionRuleMatches ==
    \/ NamespacedString(nn.Namespace, nn.Name) \in filterSets.imageStreamTags
    \/ nn.Namespace \in filterSets.imageStreamNamespaces
    \/ StreamOfRequest \in filterSets.imageStreams
    \/ \E prefix \in filterSets.imageStreamPrefixes : HasPrefix(StreamOfRequest, prefix)

\* C23: the handler passes a request on exactly when its name has the form
\* name:tag, its stream is not denied and an inclusion rule matches.
C23_FilterAdmits ==
    fpc = "handled" =>
        /\ admitted = (WellFormed /\ ~Denied /\ InclusionRuleMatches)
        /\ enqueued = IF admitted THEN <<nn>> ELSE <<>>

\* A denied stream is rejected although an inclusion rule matches.
C23_Witness ==
    /\ fpc = "handled"
    /\ WellFormed
    /\ Denied
    /\ InclusionRuleMatches
    /\ ~admitted
    /\ enqueued = <<>>

----------------------------------------------------------------------------
(* Claims about the promotion step's helper functions *)

\* The elements of a sequence.
Range(f) == { f[i] : i \in DOMAIN f }

\* The destinations of the tag mapping computed with no required images.
PromotedDestinations == DOMAIN toPromote(config, images, {}).tagsByDst

\* C24: PromotedTags returns nothing without a PromotionConfiguration, and
\* otherwise one reference per destination of the tag mapping computed
\* with no required images: the stream config.Name tagged with the
\* destination when Name is set, the stream named as the destination tagged
\* config.Tag when it is not.
C24_PromotedTags ==
    "PromotedTags" \in hcalled =>
        IF ~hasPromotion THEN promotedTags = <<>>
        ELSE /\ Len(promotedTags) = Cardinality(PromotedDestinations)
             /\ Range(promotedTags) =
                  { IF config.Name # <<>>
                      THEN [Namespace |-> ConfigNamespace, Name |-> config.Name, Tag |-> dst]
                      ELSE [Namespace |-> ConfigNamespace, Name |-> dst, Tag |-> config.Tag] :
                    dst \in PromotedDestinations }

C24_Witness ==
    /\ "PromotedTags" \in hcalled
    /\ hasPromotion
    /\ config.Name = <<>>
    /\ Len(promotedTags) = 2
    /\ \E i \in DOMAIN promotedTags : promotedTags[i].Tag = config.Tag
    /\ PromotedDestinations # DOMAIN toPromote(config, images, requiredImages).tagsByDst

\* The step's tag mapping.
StepMapping == toPromote(config, images, requiredImages).tagsByDst

\* The destinations whose source tag is in the pipeline stream's status.
PresentDestinations == { dst \in DOMAIN StepMapping : StepMapping[dst] \in pipeline }

\* C29: the mirror mapping holds one entry for every destination whose
\* source tag is present in the pipeline status, also when two destinations
\* have the same source tag.
C29_OneMirrorPerDestination ==
    "getImageMirrorTarget" \in hcalled =>
        /\ Cardinality(DOMAIN imageMirror) = Cardinality(PresentDestinations)
        /\ \A dst \in PresentDestinations :
              \E k \in DOMAIN imageMirror : imageMirror[k] = MirrorTarget(config, dst)

\* The strings of the sequence are in ascending order.
Ascending(order) == \A i \in 1..(Len(order) - 1) : StringLess(order[i], order[i + 1])

\* C25: whatever the order in which the keys of the mirror mapping are
\* visited, the pod is named promotion in the given namespace, never
\* restarts and has one container with one argument: the mirror commands
\* of the keys in ascending order, joined by " && ".
C25_PodIndependentOfOrder ==
    "getPromotionPod" \in hcalled =>
        /\ pod.Name = <<"promotion">>
        /\ pod.Namespace = JobNamespace
        /\ pod.RestartPolicy = "Never"
        /\ Len(pod.Containers) = 1
        /\ Len(pod.Containers[1].Args) = 1
        /\ \E order \in Orders(DOMAIN imageMirror) :
              /\ Ascending(order)
              /\ pod.Containers[1].Args[1] =
                    Join([i \in 1..Len(order) |-> MirrorCommand(order[i], imageMirror[order[i]])],
                         <<" && ">>)

C25_Witness ==
    /\ "getPromotionPod" \in hcalled
    /\ Cardinality(DOMAIN imageMirror) = 2
    /\ Contains(pod.Containers[1].Args[1], <<" && ">>)

----------------------------------------------------------------------------
(* Claims about repeated promotion runs *)

\* C30: after any number of in-cluster runs with Name set and the same
\* inputs, each promoted destination tag (one whose source tag the pipeline
\* stream holds) occurs exactly once among the spec tags of the destination
\* stream, as it does after one run.
C30_NameRunsIdempotent ==
    (ppc = "done" /\ presult = "ok" /\ config.Name # <<>> /\ attempts > 0) =>
        \A d \in DOMAIN promTags :
            promTags[d] \in pipeline =>
                Cardinality({ i \in DOMAIN dstSpecTags : dstSpecTags[i].Name = d }) = 1

====
